---- MODULE Spec2Model ----
(***************************************************************************)
(* The ingestion pipeline of streaming_challenge: producers RPUSH events   *)
(* to the Redis list REDIS_QUEUE, consumer.py drains it with LPOP in       *)
(* batches, enriches every event and appends the records to the Redis list *)
(* REDIS_DATA_LIST (the output log) in one pipeline per batch.             *)
(*                                                                         *)
(* Numbers are fixed-point decimals counted in units of 10^-4 (Unit), so   *)
(* 80.0 is 800000 and 0.0004 is 4.  Python rounds the binary double; the   *)
(* inputs below are chosen so that no decimal tie occurs, where the exact  *)
(* decimal result and the double's result agree.                           *)
(***************************************************************************)
EXTENDS Integers, Sequences, FiniteSets, TLC

(***************************************************************************)
(* JSON values as json.loads returns them.                                 *)
(***************************************************************************)
Unit == 10000

Absent == [t |-> "absent"]
Null == [t |-> "null"]
Bool(b) == [t |-> "bool", b |-> b]
Num(n) == [t |-> "num", v |-> n]
Str(s) == [t |-> "str", s |-> s]
List(n) == [t |-> "list", n |-> n]

\* A metrics mapping; a key the mapping lacks is Absent.
Metrics(h, b, i, n, ti) ==
    [t |-> "map", hype_score |-> h, brand_equity |-> b, imdb_rating |-> i,
     netflix_hours |-> n, title |-> ti]

EmptyMetrics == Metrics(Absent, Absent, Absent, Absent, Absent)

\* A JSON object read as an event; extra says that it has other keys.
Event(ts, ti, m, x) ==
    [t |-> "obj", timestamp |-> ts, title |-> ti, metrics |-> m, extra |-> x]

EmptyDict == Event(Absent, Absent, Absent, FALSE)

\* dict.get(key): None for a missing key.
Get(v) == IF v = Absent THEN Null ELSE v

\* Python truth value.
Truthy(v) ==
    CASE v.t = "absent" -> FALSE
      [] v.t = "null" -> FALSE
      [] v.t = "bool" -> v.b
      [] v.t = "num" -> v.v # 0
      [] v.t = "str" -> v.s # ""
      [] v.t = "list" -> v.n > 0
      [] v.t = "map" -> \/ v.hype_score # Absent \/ v.brand_equity # Absent
                        \/ v.imdb_rating # Absent \/ v.netflix_hours # Absent
                        \/ v.title # Absent
      [] v.t = "obj" -> \/ v.timestamp # Absent \/ v.title # Absent
                        \/ v.metrics # Absent \/ v.extra

\* x or y
Or(x, y) == IF Truthy(x) THEN x ELSE y

\* The strings float() reads, with their values.
FloatOfStr == [s \in {"12", "1.5"} |-> IF s = "12" THEN 12 * Unit ELSE 15000]

\* The strings int() reads.
IntOfStr == [s \in {"12"} |-> 12]

Raised == [ok |-> FALSE]
Ok(x) == [ok |-> TRUE, v |-> x]

\* float(v): a number, or an exception.
ToFloat(v) ==
    CASE v.t = "num" -> Ok(v.v)
      [] v.t = "bool" -> Ok(IF v.b THEN Unit ELSE 0)
      [] v.t = "str" -> IF v.s \in DOMAIN FloatOfStr THEN Ok(FloatOfStr[v.s]) ELSE Raised
      [] OTHER -> Raised

\* Truncation toward zero, in whole units.
Trunc(n) == IF n >= 0 THEN n \div Unit ELSE -((-n) \div Unit)

\* int(v): a whole number, or an exception.
ToInt(v) ==
    CASE v.t = "num" -> Ok(Trunc(v.v))
      [] v.t = "bool" -> Ok(IF v.b THEN 1 ELSE 0)
      [] v.t = "str" -> IF v.s \in DOMAIN IntOfStr THEN Ok(IntOfStr[v.s]) ELSE Raised
      [] OTHER -> Raised

\* Round q + r/d (0 <= r < d) to the nearest integer, ties to even.
RoundQR(q, r, d) ==
    IF 2 * r > d THEN q + 1
    ELSE IF 2 * r < d THEN q
    ELSE IF q % 2 = 0 THEN q ELSE q + 1

\* round(n / d) for any sign of n.
RoundDiv(n, d) ==
    IF n >= 0 THEN RoundQR(n \div d, n % d, d)
    ELSE -RoundQR((-n) \div d, (-n) % d, d)

\* round(x, 3) of x = h units: a multiple of 10 units.
Round3(h) == 10 * RoundDiv(h, 10)

\* round(h * (r / 10.0), 4) for h, r >= 0 in units, without leaving 32 bits:
\* h * r / (10 * Unit) with r = rh * 1000 + rl.
MulRate(h, r) ==
    LET rh == r \div 1000
        rl == r % 1000
        a == h * rh
        b == h * rl
        rem == (a % 100) * 1000 + (b % 100000)
        q == (a \div 100) + (b \div 100000) + (rem \div 100000)
    IN RoundQR(q, rem % 100000, 100000)

\* round(hype * (rating / 10.0), 4)
Engagement(h, r) ==
    IF (h >= 0) = (r >= 0)
    THEN MulRate(IF h >= 0 THEN h ELSE -h, IF r >= 0 THEN r ELSE -r)
    ELSE -MulRate(IF h >= 0 THEN h ELSE -h, IF r >= 0 THEN r ELSE -r)

\* The neutral rating of line 56.
NeutralRating == 5 * Unit

\* Line 36: event.get("timestamp") or int(time.time()).
timestamp_of(event, now) == Or(Get(event.timestamp), Num(now * Unit))

\* title_of without the "Unknown" default.
title_of_nodefault(event, metrics) == Or(Get(event.title), Get(metrics.title))

\* Line 37: event.get("title") or metrics.get("title") or "Unknown".
title_of(event, metrics) ==
    Or(Or(Get(event.title), Get(metrics.title)), Str("Unknown"))

\* Lines 41, 53: float(metrics.get(key) or 0.0), as float() of the value given.
float_or_zero(v) == ToFloat(Or(Get(v), Num(0)))

\* Line 44: int(metrics.get("brand_equity") or 0).
int_or_zero(v) == ToInt(Or(Get(v), Num(0)))

\* rating_of taking a rating of zero for no rating at all.
rating_of_zero_none(v) ==
    IF ~Truthy(Get(v)) THEN Null
    ELSE IF ToFloat(v).ok THEN Num(ToFloat(v).v) ELSE Null

\* Lines 47-51: float(imdb_rating) if it is not None, None on an exception.
rating_of(v) ==
    IF Get(v) = Null THEN Null
    ELSE IF ToFloat(v).ok THEN Num(ToFloat(v).v) ELSE Null

\* rating_or_neutral testing "is None" where the code tests truth.
rating_or_neutral_isnone(rating) ==
    IF rating = Null THEN NeutralRating ELSE rating.v

\* Line 56: (imdb_rating or 5.0), in units.
rating_or_neutral(rating) == Or(rating, Num(NeutralRating)).v

\* consumer.py enrich_record: the record, or an exception.  now is int(time.time()).
\* event.get fails on a value that is no dict, metrics.get on metrics that is none.
enrich_record(event, now) ==
    IF event.t # "obj" THEN Raised
    ELSE
    LET metrics == IF event.metrics = Absent THEN EmptyMetrics ELSE event.metrics
        isMap == metrics.t = "map"
        ts == ToInt(timestamp_of(event, now))
        hype == float_or_zero(metrics.hype_score)
        brand == int_or_zero(metrics.brand_equity)
        rating == rating_of(metrics.imdb_rating)
        hours == float_or_zero(metrics.netflix_hours)
    IN IF ~isMap THEN Raised
       ELSE IF ~hype.ok \/ ~brand.ok \/ ~hours.ok \/ ~ts.ok THEN Raised
       ELSE Ok([timestamp |-> Num(ts.v * Unit),
                title |-> title_of(event, metrics),
                hype_score |-> Num(Round3(hype.v)),
                brand_equity |-> Num(brand.v * Unit),
                imdb_rating |-> rating,
                netflix_hours |-> Num(hours.v),
                engagement_score |->
                    Num(Engagement(hype.v, rating_or_neutral(rating)))])

(***************************************************************************)
(* Queue and log entries are strings: JSON text, or text that is no JSON.  *)
(***************************************************************************)
Text == [t |-> "text"]

\* json.dumps(v)
Dumps(v) == [t |-> "json", v |-> v]

\* safe_parse returning a dict that wraps the text where the code returns {}.
safe_parse_wrapped(raw) ==
    IF raw.t = "json" THEN raw.v ELSE Event(Absent, Absent, Absent, TRUE)

\* consumer.py safe_parse: json.loads(raw), {} on any exception.
safe_parse(raw) == IF raw.t = "json" THEN raw.v ELSE EmptyDict

\* Lines 89-92 of main_loop for one item: dropped, an exception, or a record.
process_item(raw, now) ==
    LET ev == safe_parse(raw)
    IN IF ~Truthy(ev) THEN [st |-> "dropped"]
       ELSE IF enrich_record(ev, now).ok
            THEN [st |-> "record", rec |-> enrich_record(ev, now).v]
            ELSE [st |-> "raised"]

(***************************************************************************)
(* The field values of the events that SpecOne feeds the consumer.         *)
(***************************************************************************)
TimestampVals ==
    {Absent, Null, Num(0), Num(17 * Unit), Num(17 * Unit + 5000), Str("12"), Str("abc")}
TitleVals == {Absent, Null, Str(""), Str("X")}
HypeVals ==
    {Absent, Null, Num(0), Num(4), Num(12346), Num(-12346), Num(80 * Unit),
     Str("12"), Str("abc")}
BrandVals == {Absent, Num(0), Num(127000), Str("1.5")}
RatingVals ==
    {Absent, Null, Num(0), Num(9 * Unit), Num(87000), Str("abc"), Str("1.5"), List(1)}
HoursVals == {Absent, Num(0), Num(15000)}
MetricTitleVals == {Absent, Str("M")}

MetricsVals ==
    {Absent, Null, List(0), Str("abc")} \cup
    {Metrics(h, b, i, n, ti) : h \in HypeVals, b \in BrandVals, i \in RatingVals,
                               n \in HoursVals, ti \in MetricTitleVals}

Events ==
    {Event(ts, ti, m, FALSE) : ts \in TimestampVals, ti \in TitleVals, m \in MetricsVals}

\* Entries that are not events: JSON text of a value that is no object, or no JSON.
OtherRaws ==
    {Text, Dumps(EmptyDict), Dumps(Null), Dumps(List(0)), Dumps(List(1)),
     Dumps(Num(0)), Dumps(Num(5 * Unit)), Dumps(Str("")), Dumps(Str("abc")),
     Dumps(Bool(TRUE))}

EnrichRaws == {Dumps(e) : e \in Events} \cup OtherRaws

\* The values int(time.time()) takes: two moments of the consumer's run.
ClockVals == {99, 100}

(***************************************************************************)
(* The pipeline.                                                           *)
(***************************************************************************)
Consumers == {"c1", "c2"}

\* POP_BATCH and SNAPSHOT_EVERY are read from the environment (200 and 5000
\* when unset); the model runs with small values.
POP_BATCH == 2
SNAPSHOT_EVERY == 2

\* Entries enqueued in one run, and entries in one producer pipeline.
MaxEvents == 3
MaxPush == 2

GoodEvent ==
    Dumps(Event(Num(17 * Unit), Str("X"),
                Metrics(Num(80 * Unit), Absent, Num(9 * Unit), Absent, Absent), FALSE))
NoTitleEvent ==
    Dumps(Event(Num(17 * Unit), Absent,
                Metrics(Num(12346), Absent, Absent, Absent, Absent), FALSE))
ListEntry == Dumps(List(1))

\* The strings clients put into the queue.
QueueRaws == {GoodEvent, NoTitleEvent, Text, ListEntry}

(***************************************************************************)
(* The dashboards app.py and app_enhanced.py: what one run of the script   *)
(* reads from the log and what it makes of the rows.                       *)
(***************************************************************************)
Apps == {"app", "app_enhanced"}

\* MAX_READ is read from the environment (50000 when unset); the model runs
\* with the smallest value that lets app.py fit its regression.
MAX_READ == 31

Min(a, b) == IF a <= b THEN a ELSE b
Max(a, b) == IF a >= b THEN a ELSE b

\* Redis LLEN.
llen(l) == Len(l)

\* Redis LRANGE: start and stop count from 0 and are both inclusive, a negative
\* index counts from the end, and a stop past the end means the last element.
lrange(l, start, stop) ==
    LET n == Len(l)
        s == IF start < 0 THEN Max(n + start, 0) ELSE start
        e == IF stop < 0 THEN n + stop ELSE IF stop > n - 1 THEN n - 1 ELSE stop
    IN IF s > e THEN <<>> ELSE SubSeq(l, s + 1, e + 1)

\* json.loads(x): the value, or an exception on text that is no JSON.
loads(line) == IF line.t = "json" THEN Ok(line.v) ELSE Raised

\* The rows of the lines that are JSON, the other lines left out.
records_of_skip(raw) ==
    LET good == SelectSeq(raw, LAMBDA x : loads(x.line).ok)
    IN Ok([i \in DOMAIN good |-> loads(good[i].line).v])

\* [json.loads(x) for x in raw] and the DataFrame of the records: one row per
\* line, or the exception of the first line that is no JSON.
records_of(raw) ==
    IF \E i \in DOMAIN raw : ~loads(raw[i].line).ok THEN Raised
    ELSE Ok([i \in DOMAIN raw |-> loads(raw[i].line).v])

\* The titles of a table, and the rows of one title.
TitlesOf(rows) == {rows[i].title : i \in DOMAIN rows}
RowsOf(rows, t) == {i \in DOMAIN rows : rows[i].title = t}

\* The sum of hype_score over the first n rows that have title t.
RECURSIVE HypeSum(_, _, _)
HypeSum(rows, t, n) ==
    IF n = 0 THEN 0
    ELSE HypeSum(rows, t, n - 1) + IF rows[n].title = t THEN rows[n].hype_score.v ELSE 0

\* groupby('title').agg({'hype_score': 'mean'}): per title the sum and the count,
\* whose quotient is the mean.
hype_stats(rows) ==
    [t \in TitlesOf(rows) |->
        [sum |-> HypeSum(rows, t, Len(rows)), count |-> Cardinality(RowsOf(rows, t))]]

\* groupby('title') sorts its keys: the order of the titles of the model.
TitleOrder == <<"A", "B", "C", "D", "E", "F", "G", "H", "M", "Unknown", "X">>
TitleRank(t) == CHOOSE i \in DOMAIN TitleOrder : TitleOrder[i] = t.s

\* The comparison by the sum of hype_score where the code takes the mean.
sum_above(a, b) == a.sum > b.sum

\* The mean of group a is above that of group b, compared without dividing.
mean_above(a, b) == a.sum * b.count > b.sum * a.count

\* Lines 67-68 of app.py: the titles by descending mean hype_score, and
\* head(top_n) of them.  pandas does not say in which order rows of equal mean
\* come out of sort_values; asc says whether they keep the order of groupby or
\* come reversed.
leaderboard(rows, top_n, asc) ==
    LET stats == hype_stats(rows)
        titles == DOMAIN stats
        before(a, b) ==
            \/ mean_above(stats[a], stats[b])
            \/ /\ ~mean_above(stats[b], stats[a])
               /\ IF asc THEN TitleRank(a) < TitleRank(b)
                  ELSE TitleRank(a) > TitleRank(b)
        place == [t \in titles |-> 1 + Cardinality({u \in titles : before(u, t)})]
    IN [p \in 1..Min(top_n, Cardinality(titles)) |->
           CHOOSE t \in titles : place[t] = p]

\* The slider of line 64 of app.py offers 5..50; the values the model tries.
SliderVals == {5, 6, 10, 50}

\* The sum of hype_score over the first n rows of the group (title, time) k.
RECURSIVE GroupHypeSum(_, _, _)
GroupHypeSum(rows, k, n) ==
    IF n = 0 THEN 0
    ELSE GroupHypeSum(rows, k, n - 1) +
            IF rows[n].title = k[1] /\ rows[n].timestamp = k[2]
            THEN rows[n].hype_score.v ELSE 0

\* Lines 85-87 of app.py: the (title, time) groups whose mean hype_score and
\* largest netflix_hours are above 0.
ml_rows_app(rows) ==
    LET keys == {<<rows[i].title, rows[i].timestamp>> : i \in DOMAIN rows}
        group(k) == {i \in DOMAIN rows : rows[i].title = k[1] /\ rows[i].timestamp = k[2]}
    IN {k \in keys : /\ GroupHypeSum(rows, k, Len(rows)) > 0
                     /\ \E i \in group(k) : rows[i].netflix_hours.v > 0}

\* Lines 252-259 of app_enhanced.py: the titles whose largest brand_equity is
\* above 0.
ml_rows_enhanced(rows) ==
    {t \in TitlesOf(rows) : \E i \in RowsOf(rows, t) : rows[i].brand_equity.v > 0}

\* The thresholds of line 88 of app.py and line 261 of app_enhanced.py.
MinSamples == [app |-> 30, app_enhanced |-> 5]

\* if len(ml_df) >= threshold, where the code has >.
enough_geq(a, n) == n >= MinSamples[a]

\* if len(ml_df) > 30 (app.py), if len(ml_df) > 5 (app_enhanced.py).
enough(a, n) == n > MinSamples[a]

\* The regression block: "insufficient" is the st.info of the else branch.  In
\* app_enhanced.py the std of a title with one row is NaN, and
\* LinearRegression.fit raises on NaN.
regression(a, rows) ==
    LET n == IF a = "app" THEN Cardinality(ml_rows_app(rows))
             ELSE Cardinality(ml_rows_enhanced(rows))
    IN IF ~enough(a, n) THEN "insufficient"
       ELSE IF a = "app_enhanced"
               /\ \E t \in ml_rows_enhanced(rows) : Cardinality(RowsOf(rows, t)) < 2
            THEN "raised"
            ELSE "fitted"

\* A dashboard that has not run yet.
NotRun ==
    [pc |-> "idle", total |-> 0, error |-> FALSE, rows |-> <<>>, page |-> "none",
     top_n |-> 0, top |-> <<>>, fit |-> "none"]

(***************************************************************************)
(* The producers producer.py, producer_integrated.py and                   *)
(* producer_streaming.py: the events they build from Google Trends.        *)
(***************************************************************************)
Producers == {"producer", "integrated", "streaming"}

\* What one request to Google Trends (build_payload, interest_over_time) comes
\* to: an exception, an empty frame, or a frame that has the columns cols, each
\* holding the values vals, oldest first.
FetchRaises == [kind |-> "raises"]
FetchEmpty == [kind |-> "empty"]
FetchData(cols, vals) == [kind |-> "data", cols |-> cols, vals |-> vals]
FrameVals == {<<0>>, <<123450, 123462>>}
Outcomes(keywords) ==
    {FetchRaises, FetchEmpty} \cup
        {FetchData(cols, vals) :
            cols \in SUBSET {keywords[i] : i \in DOMAIN keywords}, vals \in FrameVals}

RECURSIVE SeqSum(_, _)
SeqSum(vals, n) == IF n = 0 THEN 0 ELSE SeqSum(vals, n - 1) + vals[n]

\* df[kw].mean(); the values of the model divide without remainder.
Mean(vals) == SeqSum(vals, Len(vals)) \div Len(vals)

\* data[show].iloc[-1]
Latest(vals) == vals[Len(vals)]

\* producer.py: shows (load_shows_list) and BATCH_SIZE (line 50).
ProducerShows == <<"A", "B", "C">>
BATCH_SIZE == 2

\* producer.py chunks: successive n-sized chunks of lst.
chunks(lst, n) ==
    [b \in 1..((Len(lst) + n - 1) \div n) |->
        SubSeq(lst, (b - 1) * n + 1, Min(b * n, Len(lst)))]

\* producer.py TrendsBatcher.fetch_batch_interest: zero for every keyword, and
\* the mean of its column for a keyword the frame has.
fetch_batch_interest(keywords, outcome) ==
    [kw \in {keywords[i] : i \in DOMAIN keywords} |->
        IF outcome.kind = "data" /\ kw \in outcome.cols THEN Mean(outcome.vals) ELSE 0]

\* producer.py lines 198-206: the IMDb row of a title.  Title A has one, with a
\* rating of 8.1 and a runtime of 45 minutes; the other titles have none.
imdb_row_of(title) ==
    IF title = "A" THEN [averageRating |-> Num(81000), hours |-> 7500]
    ELSE [averageRating |-> Null, hours |-> 0]

\* producer.py line 208: float(batch_results.get(title, 0.0) or 0.0).
hype_of(batch_results, title) ==
    IF title \in DOMAIN batch_results THEN Or(Num(batch_results[title]), Num(0)).v ELSE 0

\* producer.py lines 197-222: the event of one show.  The key total_plays, which
\* the consumer never reads, is left out.
producer_event(title, timestamp, batch_results) ==
    LET row == imdb_row_of(title)
        rating == IF Truthy(row.averageRating) THEN Num(ToFloat(row.averageRating).v)
                  ELSE Null
    IN Dumps(Event(Num(timestamp * Unit), Str(title),
                   Metrics(Num(Round3(hype_of(batch_results, title))), Null, rating,
                           Num(row.hours), Absent), FALSE))

\* producer_events making an event only for a show that has a hype_score.
producer_events_with_data(batch, timestamp, batch_results) ==
    LET kept == SelectSeq(batch, LAMBDA title : hype_of(batch_results, title) # 0)
    IN [i \in DOMAIN kept |-> producer_event(kept[i], timestamp, batch_results)]

\* producer.py lines 195-222: the commands buffered for one batch.
producer_events(batch, timestamp, batch_results) ==
    [i \in DOMAIN batch |-> producer_event(batch[i], timestamp, batch_results)]

\* producer_integrated.py and producer_streaming.py load_imdb_metadata: title A
\* has metadata, the other titles have none.
meta_of(title) ==
    IF title = "A" THEN [found |-> TRUE, brand_equity |-> Num(127 * Unit),
                         imdb_rating |-> Num(81000)]
    ELSE [found |-> FALSE]

\* meta.get("brand_equity", 0) and meta.get("imdb_rating", 0.0).
brand_equity_of(title) ==
    IF meta_of(title).found THEN meta_of(title).brand_equity ELSE Num(0)
imdb_rating_of(title) ==
    IF meta_of(title).found THEN meta_of(title).imdb_rating ELSE Num(0)

\* producer_integrated.py TRACKED_SHOWS.
IntegratedShows == <<"A", "D">>

\* The first week of a history, in seconds.
WeekOne == 1000

\* producer_integrated.py TrendsFetcher.fetch_history: a point for every row of
\* the frame when it has the show's column, no point otherwise.
fetch_history(show_title, outcome) ==
    IF outcome.kind = "data" /\ show_title \in outcome.cols
    THEN [i \in DOMAIN outcome.vals |->
             [timestamp |-> WeekOne + i, hype_score |-> Trunc(outcome.vals[i]) * Unit]]
    ELSE <<>>

\* producer_integrated.py process_show lines 171-184: the commands buffered for
\* one show.  The key cost_basis, which the consumer never reads, is left out.
history_events(title, history) ==
    [i \in DOMAIN history |->
        Dumps(Event(Num(history[i].timestamp * Unit), Str(title),
                    Metrics(Num(history[i].hype_score), brand_equity_of(title),
                            imdb_rating_of(title), Num(0), Absent), FALSE))]

\* producer_streaming.py TRACKED_SHOWS, which lists one show twice, and the
\* batch_size of line 144.
StreamShows == <<"A", "B", "C", "A">>
StreamBatchSize == 2

\* A dict as the sequence of its items in insertion order: d[k] = v.
dict_set(d, k, v) ==
    IF \E i \in DOMAIN d : d[i].k = k
    THEN [i \in DOMAIN d |-> IF d[i].k = k THEN [k |-> k, v |-> v] ELSE d[i]]
    ELSE Append(d, [k |-> k, v |-> v])
dict_keys(d) == {d[i].k : i \in DOMAIN d}

\* self.last_values.get(show, 0.0)
cached(last_values, show) ==
    IF show \in DOMAIN last_values THEN last_values[show] ELSE 0

\* producer_streaming.py get_current_interest: the value returned and the cache.
get_current_interest(show_title, outcome, last_values) ==
    IF outcome.kind = "data" /\ show_title \in outcome.cols
    THEN [value |-> Latest(outcome.vals),
          last_values |-> (show_title :> Latest(outcome.vals)) @@ last_values]
    ELSE [value |-> cached(last_values, show_title), last_values |-> last_values]

\* Lines 154-160 and 167-168 of fetch_batch_interests: the first n shows of a
\* batch, one after the other.
RECURSIVE stream_shows(_, _, _, _, _)
stream_shows(batch, n, outcome, results, last_values) ==
    IF n = 0 THEN [results |-> results, last_values |-> last_values]
    ELSE LET s == stream_shows(batch, n - 1, outcome, results, last_values)
             show == batch[n]
         IN IF outcome.kind = "data" /\ show \in outcome.cols
            THEN [results |-> dict_set(s.results, show, Latest(outcome.vals)),
                  last_values |-> (show :> Latest(outcome.vals)) @@ s.last_values]
            ELSE [results |-> dict_set(s.results, show, cached(s.last_values, show)),
                  last_values |-> s.last_values]

\* stream_batch with the cache emptied when the request raises.
stream_batch_forget(batch, outcome, results, last_values) ==
    IF outcome.kind = "empty" THEN [results |-> results, last_values |-> last_values]
    ELSE IF outcome.kind = "raises"
    THEN stream_shows(batch, Len(batch), outcome, results, <<>>)
    ELSE stream_shows(batch, Len(batch), outcome, results, last_values)

\* producer_streaming.py fetch_batch_interests lines 147-169: one batch.  An
\* empty frame leaves results as it is: line 153 has no else.
stream_batch(batch, outcome, results, last_values) ==
    IF outcome.kind = "empty" THEN [results |-> results, last_values |-> last_values]
    ELSE stream_shows(batch, Len(batch), outcome, results, last_values)

\* producer_streaming.py stream_loop lines 204-226: the commands buffered for
\* the items of current_interests.  The keys is_trending and cost_basis, which
\* the consumer never reads, are left out.
stream_events(current_interests, timestamp) ==
    [i \in DOMAIN current_interests |->
        Dumps(Event(Num(timestamp * Unit), Str(current_interests[i].k),
                    Metrics(Num(current_interests[i].v),
                            brand_equity_of(current_interests[i].k),
                            imdb_rating_of(current_interests[i].k), Num(0), Absent),
                    FALSE))]

\* Each producer at the start of its loop.  sent is a history field: the ids of
\* the entries the producer enqueued, in the order of its pipe.rpush calls.
NotStarted ==
    [producer |-> [pc |-> "cycle", timestamp |-> 0, futures |-> <<>>,
                   outcomes |-> <<>>, pending |-> {}, cycles |-> 0, sent |-> <<>>],
     integrated |-> [pc |-> "show", i |-> 1, sent |-> <<>>],
     streaming |-> [pc |-> "fetch", i |-> 1, results |-> <<>>, last_values |-> <<>>,
                    outcomes |-> <<>>, last_ok |-> <<>>, iteration |-> 1,
                    sent |-> <<>>]]

VARIABLES
    queue,            \* REDIS_QUEUE (line 18): entries [id, raw], head first
    data,             \* REDIS_DATA_LIST (line 19): [src, by, line], oldest first
    snapshot_file,    \* DATA_SNAPSHOT_FILE (line 23): lines [src, by, line]
    pc,               \* where each consumer is in main_loop (lines 82-110):
                      \* "pop", "sleep", "process", "execute", "flush", and
                      \* "raised" once an exception has left main_loop
    items,            \* pop_batch's items (line 70), then main_loop's (line 83)
    idx,              \* the item the for loop of line 88 is at
    pipe,             \* the commands buffered in the pipeline of line 87
    snapshot_accum,   \* main_loop's snapshot_accum (line 80)
    total_processed,  \* main_loop's total_processed (line 79)
    next_id,          \* entries enqueued so far, plus one
    dequeued,         \* history: every entry each consumer was returned by LPOP
    q0,               \* history: the queue when the running pop_batch call began
    lost,             \* history: the entries a consumer held when it stopped
    dash,             \* each dashboard: where its script is and what it shows
    prod              \* each producer: where it is in its loop, and its locals

\* id, src and by are history fields: id numbers the entries in the order of
\* their RPUSH, src is the entry a record stems from and by the consumer that
\* made it.  The code reads none of them.

vars ==
    <<queue, data, snapshot_file, pc, items, idx, pipe, snapshot_accum,
      total_processed, next_id, dequeued, q0, lost, dash, prod>>

\* RPOP where the code calls LPOP.
rpop(q) == [value |-> q[Len(q)], rest |-> SubSeq(q, 1, Len(q) - 1)]

\* LINDEX 0 where the code calls LPOP: the head is read and stays.
lindex(q) == [value |-> Head(q), rest |-> q]

\* Redis LPOP on a non-empty list: the value returned and the list left.
lpop(q) == [value |-> Head(q), rest |-> Tail(q)]

\* LPUSH where the code calls RPUSH: the values go in front of the list.
lpush_all(q, vals) == vals \o q

\* Redis RPUSH of several values in one MULTI/EXEC pipeline.
rpush_all(q, vals) == q \o vals

\* Every consumer at the top of main_loop, the file and the log empty.
Started ==
    /\ data = <<>>
    /\ snapshot_file = <<>>
    /\ pc = [c \in Consumers |-> "pop"]
    /\ items = [c \in Consumers |-> <<>>]
    /\ idx = [c \in Consumers |-> 1]
    /\ pipe = [c \in Consumers |-> <<>>]
    /\ snapshot_accum = [c \in Consumers |-> <<>>]
    /\ total_processed = [c \in Consumers |-> 0]
    /\ dequeued = [c \in Consumers |-> <<>>]
    /\ q0 = [c \in Consumers |-> <<>>]
    /\ lost = {}
    /\ dash = [a \in Apps |-> NotRun]
    /\ prod = NotStarted

Init ==
    /\ queue = <<>>
    /\ next_id = 1
    /\ Started

\* A producer's pipe.rpush(...) calls and pipe.execute(): the batch is appended
\* to the tail in one transaction.
RPush(batch) ==
    /\ next_id + Len(batch) - 1 <= MaxEvents
    /\ queue' = rpush_all(queue,
                    [i \in 1..Len(batch) |-> [id |-> next_id + i - 1, raw |-> batch[i]]])
    /\ next_id' = next_id + Len(batch)
    /\ UNCHANGED <<data, snapshot_file, pc, items, idx, pipe, snapshot_accum,
                   total_processed, dequeued, q0, lost,
                   dash, prod>>

Batches == UNION {[1..n -> QueueRaws] : n \in 1..MaxPush}

\* The queue as it stood when consumer c's running pop_batch call began.
CallStart(c) == IF items[c] = <<>> THEN queue ELSE q0[c]

\* One iteration of pop_batch's loop (one LPOP), with the return when the loop
\* ends, and lines 84-87 of main_loop on the returned list.
LPop(c) ==
    /\ pc[c] = "pop"
    /\ IF queue = <<>>
       THEN /\ pc' = [pc EXCEPT ![c] = IF items[c] = <<>> THEN "sleep" ELSE "process"]
            /\ q0' = [q0 EXCEPT ![c] = <<>>]
            /\ UNCHANGED <<queue, items, dequeued>>
       ELSE /\ queue' = lpop(queue).rest
            /\ items' = [items EXCEPT ![c] = Append(@, lpop(queue).value)]
            /\ dequeued' = [dequeued EXCEPT ![c] = Append(@, lpop(queue).value)]
            /\ IF Len(items'[c]) = POP_BATCH
               THEN /\ pc' = [pc EXCEPT ![c] = "process"]
                    /\ q0' = [q0 EXCEPT ![c] = <<>>]
               ELSE /\ pc' = pc
                    /\ q0' = [q0 EXCEPT ![c] = CallStart(c)]
    /\ idx' = [idx EXCEPT ![c] = 1]
    /\ UNCHANGED <<data, snapshot_file, pipe, snapshot_accum, total_processed, next_id,
                   lost, dash, prod>>

\* A sleep from which the consumer does not wake.
sleep_on(c) ==
    /\ pc[c] = "sleep"
    /\ UNCHANGED vars

\* time.sleep(1); continue
Sleep(c) ==
    /\ pc[c] = "sleep"
    /\ pc' = [pc EXCEPT ![c] = "pop"]
    /\ UNCHANGED <<queue, data, snapshot_file, items, idx, pipe, snapshot_accum,
                   total_processed, next_id, dequeued, q0, lost, dash, prod>>

\* One iteration of the for loop of lines 88-97.
ProcessItem(c, now) ==
    /\ pc[c] = "process"
    /\ LET item == items[c][idx[c]]
           out == process_item(item.raw, now)
           last == idx[c] = Len(items[c])
       IN CASE out.st = "raised" ->
                 /\ pc' = [pc EXCEPT ![c] = "raised"]
                 /\ UNCHANGED <<idx, pipe, snapshot_accum, total_processed>>
            [] out.st = "dropped" ->
                 /\ idx' = [idx EXCEPT ![c] = @ + 1]
                 /\ pc' = [pc EXCEPT ![c] = IF last THEN "execute" ELSE "process"]
                 /\ UNCHANGED <<pipe, snapshot_accum, total_processed>>
            [] out.st = "record" ->
                 /\ idx' = [idx EXCEPT ![c] = @ + 1]
                 /\ pc' = [pc EXCEPT ![c] = IF last THEN "execute" ELSE "process"]
                 /\ pipe' = [pipe EXCEPT ![c] =
                        Append(@, [src |-> item, by |-> c, line |-> Dumps(out.rec)])]
                 /\ snapshot_accum' = [snapshot_accum EXCEPT ![c] =
                        Append(@, [src |-> item, by |-> c, rec |-> out.rec])]
                 /\ total_processed' = [total_processed EXCEPT ![c] = @ + 1]
    /\ UNCHANGED <<queue, data, snapshot_file, items, next_id, dequeued, q0, lost,
                   dash, prod>>

\* pipe.execute(): the buffered RPUSHes reach the log in one transaction; then the
\* test of line 101.
Execute(c) ==
    /\ pc[c] = "execute"
    /\ data' = rpush_all(data, pipe[c])
    /\ pipe' = [pipe EXCEPT ![c] = <<>>]
    /\ IF Len(snapshot_accum[c]) >= SNAPSHOT_EVERY
       THEN /\ pc' = [pc EXCEPT ![c] = "flush"]
            /\ UNCHANGED items
       ELSE /\ pc' = [pc EXCEPT ![c] = "pop"]
            /\ items' = [items EXCEPT ![c] = <<>>]
    /\ UNCHANGED <<queue, snapshot_file, idx, snapshot_accum, total_processed,
                   next_id, dequeued, q0, lost,
                   dash, prod>>

\* Lines 102-110 without the except clause: a write that fails ends main_loop.
flush_uncaught(c, k) ==
    /\ pc[c] = "flush"
    /\ k \in 0..Len(snapshot_accum[c])
    /\ snapshot_file' = snapshot_file \o
            [i \in 1..k |-> [src |-> snapshot_accum[c][i].src, by |-> c,
                             line |-> Dumps(snapshot_accum[c][i].rec)]]
    /\ IF k = Len(snapshot_accum[c])
       THEN /\ snapshot_accum' = [snapshot_accum EXCEPT ![c] = <<>>]
            /\ pc' = [pc EXCEPT ![c] = "pop"]
            /\ items' = [items EXCEPT ![c] = <<>>]
       ELSE /\ pc' = [pc EXCEPT ![c] = "raised"]
            /\ UNCHANGED <<snapshot_accum, items>>
    /\ UNCHANGED <<queue, data, idx, pipe, total_processed, next_id, dequeued, q0,
                   lost, dash, prod>>

\* Flush keeping the records it could not write for the next flush.
flush_keep_unwritten(c, k) ==
    /\ pc[c] = "flush"
    /\ k \in 0..Len(snapshot_accum[c])
    /\ snapshot_file' = snapshot_file \o
            [i \in 1..k |-> [src |-> snapshot_accum[c][i].src, by |-> c,
                             line |-> Dumps(snapshot_accum[c][i].rec)]]
    /\ snapshot_accum' = [snapshot_accum EXCEPT ![c] =
                              SubSeq(@, k + 1, Len(snapshot_accum[c]))]
    /\ pc' = [pc EXCEPT ![c] = "pop"]
    /\ items' = [items EXCEPT ![c] = <<>>]
    /\ UNCHANGED <<queue, data, idx, pipe, total_processed, next_id, dequeued, q0,
                   lost, dash, prod>>

\* Flush writing the buffered records newest first.
flush_newest_first(c, k) ==
    /\ pc[c] = "flush"
    /\ k \in 0..Len(snapshot_accum[c])
    /\ snapshot_file' = snapshot_file \o
            [i \in 1..k |->
                [src |-> snapshot_accum[c][Len(snapshot_accum[c]) + 1 - i].src, by |-> c,
                 line |-> Dumps(snapshot_accum[c][Len(snapshot_accum[c]) + 1 - i].rec)]]
    /\ snapshot_accum' = [snapshot_accum EXCEPT ![c] = <<>>]
    /\ pc' = [pc EXCEPT ![c] = "pop"]
    /\ items' = [items EXCEPT ![c] = <<>>]
    /\ UNCHANGED <<queue, data, idx, pipe, total_processed, next_id, dequeued, q0,
                   lost, dash, prod>>

\* Lines 102-110: the first k buffered records reach the file; k short of all of
\* them is an exception on the way, which is caught.  The buffer is emptied.
Flush(c, k) ==
    /\ pc[c] = "flush"
    /\ k \in 0..Len(snapshot_accum[c])
    /\ snapshot_file' = snapshot_file \o
            [i \in 1..k |-> [src |-> snapshot_accum[c][i].src, by |-> c,
                             line |-> Dumps(snapshot_accum[c][i].rec)]]
    /\ snapshot_accum' = [snapshot_accum EXCEPT ![c] = <<>>]
    /\ pc' = [pc EXCEPT ![c] = "pop"]
    /\ items' = [items EXCEPT ![c] = <<>>]
    /\ UNCHANGED <<queue, data, idx, pipe, total_processed, next_id, dequeued, q0,
                   lost, dash, prod>>

Next ==
    \/ \E batch \in Batches : RPush(batch)
    \/ \E c \in Consumers : LPop(c)
    \/ \E c \in Consumers : Sleep(c)
    \/ \E c \in Consumers, now \in ClockVals : ProcessItem(c, now)
    \/ \E c \in Consumers : Execute(c)
    \/ \E c \in Consumers, k \in 0..MaxEvents : Flush(c, k)

Spec == Init /\ [][Next]_vars

(***************************************************************************)
(* The sequential setting: no other queue operation runs between the first *)
(* LPOP of a pop_batch call and its return.                                *)
(***************************************************************************)
InCall(c) == pc[c] = "pop" /\ items[c] # <<>>

NextSeq ==
    \/ \E batch \in Batches : RPush(batch) /\ \A c \in Consumers : ~InCall(c)
    \/ \E c \in Consumers : LPop(c) /\ \A d \in Consumers \ {c} : ~InCall(d)
    \/ \E c \in Consumers : Sleep(c)
    \/ \E c \in Consumers, now \in ClockVals : ProcessItem(c, now)
    \/ \E c \in Consumers : Execute(c)
    \/ \E c \in Consumers, k \in 0..MaxEvents : Flush(c, k)

SpecSeq == Init /\ [][NextSeq]_vars

(***************************************************************************)
(* One consumer fed one entry, any string of EnrichRaws.                   *)
(***************************************************************************)
InitOne ==
    /\ queue \in {<<[id |-> 1, raw |-> r]>> : r \in EnrichRaws}
    /\ next_id = 2
    /\ Started

NextOne ==
    \/ LPop("c1")
    \/ Sleep("c1")
    \/ \E now \in ClockVals : ProcessItem("c1", now)
    \/ Execute("c1")

SpecOne == InitOne /\ [][NextOne]_vars

(***************************************************************************)
(* One consumer fed the same string twice, any string of EnrichRaws: the   *)
(* second is enriched after the first, at the same or at a later moment.   *)
(***************************************************************************)
InitTwice ==
    /\ queue \in {<<[id |-> 1, raw |-> r], [id |-> 2, raw |-> r]>> : r \in EnrichRaws}
    /\ next_id = 3
    /\ Started

NextTwice ==
    \/ LPop("c1")
    \/ Sleep("c1")
    \/ \E now \in ClockVals : ProcessItem("c1", now)
    \/ Execute("c1")
    \/ \E k \in 0..SNAPSHOT_EVERY : Flush("c1", k)

SpecTwice == InitTwice /\ [][NextTwice]_vars

(***************************************************************************)
(* The consumer process stops and is started again.  Nothing in the code   *)
(* handles a stop: the lists items, snapshot_accum and the pipeline live   *)
(* in the memory of the process and go with it; the store keeps the queue  *)
(* and the log; a new process starts main_loop from its first line.        *)
(***************************************************************************)
Range(seq) == {seq[i] : i \in DOMAIN seq}

\* Consumer c holds entries that left the queue and whose records are not in the
\* log: pop_batch is collecting them, or the loop of lines 88-97 is at work on
\* them, or their RPUSHes wait in the pipeline for line 98.
Unpublished(c) == pc[c] \in {"pop", "process", "execute", "raised"} /\ items[c] # <<>>

\* What the stop of consumer c adds to the history of lost batches.
StopRecord(c) ==
    IF Unpublished(c) THEN {[by |-> c, at |-> pc[c], items |-> items[c]]} ELSE {}

\* The memory of a process that has just been started.
FreshProcess(c) ==
    /\ items' = [items EXCEPT ![c] = <<>>]
    /\ idx' = [idx EXCEPT ![c] = 1]
    /\ pipe' = [pipe EXCEPT ![c] = <<>>]
    /\ snapshot_accum' = [snapshot_accum EXCEPT ![c] = <<>>]
    /\ total_processed' = [total_processed EXCEPT ![c] = 0]
    /\ q0' = [q0 EXCEPT ![c] = <<>>]

\* A stop after which the batch in hand is back at the head of the queue, as a
\* consumer with a replay list would leave it.
kill_requeue(c) ==
    /\ pc[c] \notin {"dead", "raised"}
    /\ pc' = [pc EXCEPT ![c] = "dead"]
    /\ queue' = items[c] \o queue
    /\ FreshProcess(c)
    /\ UNCHANGED <<data, snapshot_file, next_id, dequeued, lost, dash, prod>>

\* The process of consumer c is killed, wherever it is in main_loop.
Kill(c) ==
    /\ pc[c] \notin {"dead", "raised"}
    /\ pc' = [pc EXCEPT ![c] = "dead"]
    /\ lost' = lost \cup StopRecord(c)
    /\ FreshProcess(c)
    /\ UNCHANGED <<queue, data, snapshot_file, next_id, dequeued, dash, prod>>

\* A consumer that was killed, or that ended with an exception, is started
\* again: main_loop from line 79.
Restart(c) ==
    /\ pc[c] \in {"dead", "raised"}
    /\ pc' = [pc EXCEPT ![c] = "pop"]
    /\ lost' = lost \cup StopRecord(c)
    /\ FreshProcess(c)
    /\ UNCHANGED <<queue, data, snapshot_file, next_id, dequeued, dash, prod>>

\* One consumer that stops and is started again any number of times, while
\* producers go on enqueueing.
NextCrash ==
    \/ \E batch \in Batches : RPush(batch)
    \/ LPop("c1")
    \/ Sleep("c1")
    \/ \E now \in ClockVals : ProcessItem("c1", now)
    \/ Execute("c1")
    \/ \E k \in 0..MaxEvents : Flush("c1", k)
    \/ Kill("c1")
    \/ Restart("c1")

SpecCrash == Init /\ [][NextCrash]_vars

(***************************************************************************)
(* The dashboards.  Streamlit runs the whole script on every refresh: the  *)
(* load function, then the page.  app.py asks Redis twice (LLEN, LRANGE),  *)
(* app_enhanced.py once; the consumer may append between the two.          *)
(***************************************************************************)
\* What the page shows when the load function has returned: result is the table
\* or the exception caught in the load function, which returns an empty table
\* after st.error.  An empty table ends in the st.info of the no-data branch;
\* otherwise app.py ranks the titles (top_n is the slider) and both scripts run
\* their regression block.
page_of(a, result, top_n, asc) ==
    LET rows == IF result.ok THEN result.v ELSE <<>>
        charts == rows # <<>>
    IN [pc |-> "idle", total |-> 0, error |-> ~result.ok, rows |-> rows,
        page |-> IF charts THEN "charts" ELSE "nodata",
        top_n |-> IF charts /\ a = "app" THEN top_n ELSE 0,
        top |-> IF charts /\ a = "app" THEN leaderboard(rows, top_n, asc) ELSE <<>>,
        fit |-> IF charts THEN regression(a, rows) ELSE "none"]

\* app.py line 39, total = r.llen(REDIS_DATA_LIST): the length, or an exception
\* of the connection (ok is FALSE), which ends the load function.
AppLlen(ok) ==
    /\ dash["app"].pc = "idle"
    /\ dash' = [dash EXCEPT !["app"] =
                   IF ok THEN [@ EXCEPT !.pc = "lrange", !.total = llen(data)]
                   ELSE page_of("app", Raised, 0, TRUE)]
    /\ UNCHANGED <<queue, data, snapshot_file, pc, items, idx, pipe, snapshot_accum,
                   total_processed, next_id, dequeued, q0, lost, prod>>

\* The rest of the run with an LTRIM of the log to the rows read.
app_lrange_trim(ok, top_n, asc) ==
    /\ dash["app"].pc = "lrange"
    /\ LET total == dash["app"].total
           start == Max(0, total - MAX_READ)
           raw == lrange(data, start, total)
       IN /\ dash' = [dash EXCEPT !["app"] =
                         page_of("app", IF ok THEN records_of(raw) ELSE Raised,
                                 top_n, asc)]
          /\ data' = IF ok THEN raw ELSE data
    /\ UNCHANGED <<queue, snapshot_file, pc, items, idx, pipe, snapshot_accum,
                   total_processed, next_id, dequeued, q0, lost, prod>>

\* app.py lines 40-54 and the page, lines 56-103: LRANGE from start to total, or
\* an exception of the connection; the rows; the page.
AppLrange(ok, top_n, asc) ==
    /\ dash["app"].pc = "lrange"
    /\ LET total == dash["app"].total
           start == Max(0, total - MAX_READ)
           raw == lrange(data, start, total)
       IN dash' = [dash EXCEPT !["app"] =
                      page_of("app", IF ok THEN records_of(raw) ELSE Raised,
                              top_n, asc)]
    /\ UNCHANGED <<queue, data, snapshot_file, pc, items, idx, pipe, snapshot_accum,
                   total_processed, next_id, dequeued, q0, lost, prod>>

\* app_enhanced.py load_data, lines 18-32, and the page: LRANGE 0 -1.
EnhancedLoad(ok) ==
    /\ dash["app_enhanced"].pc = "idle"
    /\ LET raw == lrange(data, 0, -1)
           result == IF ~ok THEN Raised
                     ELSE IF raw = <<>> THEN Ok(<<>>) ELSE records_of(raw)
       IN dash' = [dash EXCEPT !["app_enhanced"] =
                      page_of("app_enhanced", result, 0, TRUE)]
    /\ UNCHANGED <<queue, data, snapshot_file, pc, items, idx, pipe, snapshot_accum,
                   total_processed, next_id, dequeued, q0, lost, prod>>

\* The records that an earlier run of the consumer published: record i of a log
\* with k titles.  In variant "first_unusable" the first record has no hours
\* and no votes; in variant "all_equal" every hype_score is the same.  The
\* variants "reversed" and "all_equal" hold the records newest title first, so
\* that the titles are first seen against the order of the alphabet.
EarlierEntry(i, k, variant) ==
    LET j == ((i - 1) % k) + 1
        hype == IF variant = "all_equal" THEN 50 * Unit ELSE (10 * j + (i % 3)) * Unit
        none == variant = "first_unusable" /\ i = 1
        ev == Event(Num(i * Unit), Str(TitleOrder[j]),
                    Metrics(Num(hype), IF none THEN Absent ELSE Num(127 * Unit), Absent,
                            IF none THEN Absent ELSE Num(15000), Absent), FALSE)
    IN [src |-> [id |-> 0 - i, raw |-> Dumps(ev)], by |-> "earlier",
        line |-> Dumps(enrich_record(ev, 99).v)]

Variants == {"plain", "reversed", "first_unusable", "all_equal"}

EarlierLog(n, k, variant) ==
    [i \in 1..n |-> EarlierEntry(IF variant \in {"reversed", "all_equal"} THEN n + 1 - i ELSE i,
                             k, variant)]

\* A line of the log that no consumer wrote and that is no JSON.
ForeignLine == [src |-> [id |-> 0, raw |-> Text], by |-> "other", line |-> Text]

\* Everything but the log at the start of a run.
StartedOn(log) ==
    /\ queue = <<>>
    /\ next_id = 1
    /\ data = log
    /\ snapshot_file = <<>>
    /\ pc = [c \in Consumers |-> "pop"]
    /\ items = [c \in Consumers |-> <<>>]
    /\ idx = [c \in Consumers |-> 1]
    /\ pipe = [c \in Consumers |-> <<>>]
    /\ snapshot_accum = [c \in Consumers |-> <<>>]
    /\ total_processed = [c \in Consumers |-> 0]
    /\ dequeued = [c \in Consumers |-> <<>>]
    /\ q0 = [c \in Consumers |-> <<>>]
    /\ lost = {}
    /\ dash = [a \in Apps |-> NotRun]
    /\ prod = NotStarted

\* The pipeline with one consumer and both dashboards open.  The log is empty,
\* or one record short of MAX_READ, or holds a line that is no JSON.
InitDash ==
    \E log \in {<<>>, EarlierLog(MAX_READ - 1, 3, "plain"), <<ForeignLine>>} :
        StartedOn(log)

NextDash ==
    \/ \E n \in 1..MaxPush : RPush([i \in 1..n |-> GoodEvent])
    \/ LPop("c1")
    \/ Sleep("c1")
    \/ \E now \in ClockVals : ProcessItem("c1", now)
    \/ Execute("c1")
    \/ \E k \in 0..MaxEvents : Flush("c1", k)
    \/ \E ok \in BOOLEAN : AppLlen(ok)
    \/ \E ok \in BOOLEAN : AppLrange(ok, 10, TRUE)
    \/ \E ok \in BOOLEAN : EnhancedLoad(ok)

SpecDash == InitDash /\ [][NextDash]_vars

\* The dashboards on a log that does not change: up to MaxRows records of up to
\* MaxTitles titles, and any value of the slider.
MaxRows == 32
MaxTitles == 7

InitBoard ==
    \E n \in 0..MaxRows, k \in 1..MaxTitles, variant \in Variants :
        StartedOn(EarlierLog(n, k, variant))

NextBoard ==
    \/ \E ok \in BOOLEAN : AppLlen(ok)
    \/ \E ok, asc \in BOOLEAN, top_n \in SliderVals : AppLrange(ok, top_n, asc)
    \/ \E ok \in BOOLEAN : EnhancedLoad(ok)

SpecBoard == InitBoard /\ [][NextBoard]_vars

(***************************************************************************)
(* producer.py main_loop.                                                  *)
(***************************************************************************)
\* Cycles of producer.py, and iterations of producer_streaming.py, in one run.
MaxCycles == 2

\* Line 178: show_batches.
show_batches == chunks(ProducerShows, BATCH_SIZE)

\* entries_of with the commands of the pipeline sent last first.
entries_last_first(events) ==
    [i \in DOMAIN events |->
        [id |-> next_id + Len(events) - i, raw |-> events[Len(events) + 1 - i]]]

\* The entries a pipeline of RPUSH commands adds to the queue, and their ids.
entries_of(events) == [i \in DOMAIN events |-> [id |-> next_id + i - 1, raw |-> events[i]]]
ids_of(events) == [i \in DOMAIN events |-> next_id + i - 1]

\* Lines 182-185: a cycle begins; every batch is handed to the executor.  The
\* outcome of each request is drawn here; the clock advances with the cycles.
ProducerSubmit(outcomes) ==
    /\ prod.producer.pc = "cycle"
    /\ prod.producer.cycles < MaxCycles
    /\ prod' = [prod EXCEPT !.producer =
                   [@ EXCEPT !.pc = "collect",
                             !.timestamp = WeekOne + prod.producer.cycles,
                             !.futures = [b \in DOMAIN show_batches |->
                                 fetch_batch_interest(show_batches[b], outcomes[b])],
                             !.outcomes = outcomes,
                             !.pending = DOMAIN show_batches]]
    /\ UNCHANGED <<queue, data, snapshot_file, pc, items, idx, pipe, snapshot_accum,
                   total_processed, next_id, dequeued, q0, lost, dash>>

\* Lines 186-224: the next completed future, in whatever order they complete;
\* its events are buffered and the pipeline executed.  When the store fails,
\* pipe.execute() raises and main_loop ends.
ProducerBatch(b, ok) ==
    /\ prod.producer.pc = "collect"
    /\ b \in prod.producer.pending
    /\ LET events == producer_events(show_batches[b], prod.producer.timestamp,
                                     prod.producer.futures[b])
           left == prod.producer.pending \ {b}
       IN IF ok
          THEN /\ queue' = rpush_all(queue, entries_of(events))
               /\ next_id' = next_id + Len(events)
               /\ prod' = [prod EXCEPT !.producer =
                              [@ EXCEPT !.pending = left,
                                        !.pc = IF left = {} THEN "sleep" ELSE "collect",
                                        !.sent = @ \o ids_of(events)]]
          ELSE /\ prod' = [prod EXCEPT !.producer = [@ EXCEPT !.pc = "raised"]]
               /\ UNCHANGED <<queue, next_id>>
    /\ UNCHANGED <<data, snapshot_file, pc, items, idx, pipe, snapshot_accum,
                   total_processed, dequeued, q0, lost, dash>>

\* Lines 226-227: the cycle is complete; the producer sleeps.
ProducerSleep ==
    /\ prod.producer.pc = "sleep"
    /\ prod' = [prod EXCEPT !.producer =
                   [@ EXCEPT !.pc = "cycle", !.cycles = @ + 1, !.futures = <<>>,
                             !.outcomes = <<>>]]
    /\ UNCHANGED <<queue, data, snapshot_file, pc, items, idx, pipe, snapshot_accum,
                   total_processed, next_id, dequeued, q0, lost, dash>>

\* An outcome for the request of each batch.
BatchOutcomes ==
    {o \in [DOMAIN show_batches ->
               UNION {Outcomes(show_batches[b]) : b \in DOMAIN show_batches}] :
        \A b \in DOMAIN show_batches : o[b] \in Outcomes(show_batches[b])}

\* producer.py alone.
NextProducer ==
    \/ \E outcomes \in BatchOutcomes : ProducerSubmit(outcomes)
    \/ \E b \in DOMAIN show_batches, ok \in BOOLEAN : ProducerBatch(b, ok)
    \/ ProducerSleep

SpecProducer == Init /\ [][NextProducer]_vars

(***************************************************************************)
(* producer_integrated.py main_loop and producer_streaming.py stream_loop. *)
(***************************************************************************)
\* producer_integrated.py lines 209-219, process_show included: the next show.
\* Its history is fetched; when there is one, its events are buffered and the
\* pipeline executed, and when the store fails there pipe.execute() raises and
\* main_loop ends.  After the last show main_loop sleeps for ever.
IntegratedShow(outcome, ok) ==
    /\ prod.integrated.pc = "show"
    /\ LET title == IntegratedShows[prod.integrated.i]
           history == fetch_history(title, outcome)
           events == history_events(title, history)
           after == IF prod.integrated.i = Len(IntegratedShows) THEN "done" ELSE "show"
       IN IF history = <<>>
          THEN /\ prod' = [prod EXCEPT !.integrated =
                              [@ EXCEPT !.pc = after, !.i = @ + 1]]
               /\ UNCHANGED <<queue, next_id>>
          ELSE IF ok
          THEN /\ queue' = rpush_all(queue, entries_of(events))
               /\ next_id' = next_id + Len(events)
               /\ prod' = [prod EXCEPT !.integrated =
                              [@ EXCEPT !.pc = after, !.i = @ + 1,
                                        !.sent = @ \o ids_of(events)]]
          ELSE /\ prod' = [prod EXCEPT !.integrated = [@ EXCEPT !.pc = "raised"]]
               /\ UNCHANGED <<queue, next_id>>
    /\ UNCHANGED <<data, snapshot_file, pc, items, idx, pipe, snapshot_accum,
                   total_processed, dequeued, q0, lost, dash>>

\* producer_streaming.py line 146: the batches of fetch_batch_interests.
stream_batches == chunks(StreamShows, StreamBatchSize)

\* The cache after a batch, had every successful fetch been recorded.
record_ok(last_ok, batch, outcome) ==
    IF outcome.kind # "data" THEN last_ok
    ELSE [s \in DOMAIN last_ok \cup ({batch[i] : i \in DOMAIN batch} \cap outcome.cols) |->
             IF s \in outcome.cols /\ \E i \in DOMAIN batch : batch[i] = s
             THEN Latest(outcome.vals) ELSE last_ok[s]]

\* producer_streaming.py lines 146-169: one batch of fetch_batch_interests, in
\* the stream iteration of lines 184-197.  outcomes and last_ok are history
\* fields: the outcomes of the batches of this iteration, and for each show the
\* value of its latest successful fetch.
StreamFetch(outcome) ==
    /\ prod.streaming.pc = "fetch"
    /\ prod.streaming.iteration <= MaxCycles
    /\ LET i == prod.streaming.i
           s == stream_batch(stream_batches[i], outcome, prod.streaming.results,
                             prod.streaming.last_values)
       IN prod' = [prod EXCEPT !.streaming =
                      [@ EXCEPT !.results = s.results,
                                !.last_values = s.last_values,
                                !.outcomes = Append(@, outcome),
                                !.last_ok = record_ok(@, stream_batches[i], outcome),
                                !.i = i + 1,
                                !.pc = IF i = Len(stream_batches) THEN "push" ELSE "fetch"]]
    /\ UNCHANGED <<queue, data, snapshot_file, pc, items, idx, pipe, snapshot_accum,
                   total_processed, next_id, dequeued, q0, lost, dash>>

\* producer_streaming.py lines 199-240: an event for each item of
\* current_interests is buffered and the pipeline executed.  When the store
\* fails the exception is caught at line 239 and nothing is enqueued.  The
\* clock advances with the iterations.
StreamPush(ok) ==
    /\ prod.streaming.pc = "push"
    /\ LET events == stream_events(prod.streaming.results,
                                   WeekOne + prod.streaming.iteration)
       IN IF ok
          THEN /\ queue' = rpush_all(queue, entries_of(events))
               /\ next_id' = next_id + Len(events)
               /\ prod' = [prod EXCEPT !.streaming =
                              [@ EXCEPT !.pc = "sleep", !.sent = @ \o ids_of(events)]]
          ELSE /\ prod' = [prod EXCEPT !.streaming = [@ EXCEPT !.pc = "sleep"]]
               /\ UNCHANGED <<queue, next_id>>
    /\ UNCHANGED <<data, snapshot_file, pc, items, idx, pipe, snapshot_accum,
                   total_processed, dequeued, q0, lost, dash>>

\* producer_streaming.py lines 242-244 and 183-184: the sleep, and the next
\* iteration with its new results.
StreamSleep ==
    /\ prod.streaming.pc = "sleep"
    /\ prod' = [prod EXCEPT !.streaming =
                   [@ EXCEPT !.pc = "fetch", !.i = 1, !.results = <<>>,
                             !.outcomes = <<>>, !.iteration = @ + 1]]
    /\ UNCHANGED <<queue, data, snapshot_file, pc, items, idx, pipe, snapshot_accum,
                   total_processed, next_id, dequeued, q0, lost, dash>>

\* producer_streaming.py alone, started without the historical backfill
\* (BACKFILL_HISTORICAL other than "true").
NextStream ==
    \/ \E outcome \in Outcomes(stream_batches[Min(prod.streaming.i,
                                                  Len(stream_batches))]) :
           StreamFetch(outcome)
    \/ \E ok \in BOOLEAN : StreamPush(ok)
    \/ StreamSleep

SpecStream == Init /\ [][NextStream]_vars

\* The outcomes of a request in the pipeline of both producers: an exception,
\* or a frame with every column.
FeedOutcomes(keywords) ==
    {FetchRaises, FetchData({keywords[i] : i \in DOMAIN keywords}, <<123450, 123462>>)}

\* Both producers and one consumer on one queue: the backfill of every show,
\* one iteration of the stream, and a consumer whose snapshots succeed.
NextFeed ==
    \/ \E outcome \in FeedOutcomes(<<IntegratedShows[Min(prod.integrated.i,
                                                          Len(IntegratedShows))]>>) :
           \E ok \in BOOLEAN : IntegratedShow(outcome, ok)
    \/ \E outcome \in FeedOutcomes(stream_batches[Min(prod.streaming.i,
                                                      Len(stream_batches))]) :
           prod.streaming.iteration = 1 /\ StreamFetch(outcome)
    \/ \E ok \in BOOLEAN : StreamPush(ok)
    \/ StreamSleep
    \/ LPop("c1")
    \/ Sleep("c1")
    \/ \E now \in ClockVals : ProcessItem("c1", now)
    \/ Execute("c1")
    \/ Flush("c1", Len(snapshot_accum["c1"]))

SpecFeed == Init /\ [][NextFeed]_vars

\* The most records the buffer holds when a flush begins.
MaxBuffered == SNAPSHOT_EVERY + POP_BATCH - 1

\* The backfill and one consumer whose flushes may fail at any record.
NextSnap ==
    \/ \E outcome \in Outcomes(<<IntegratedShows[Min(prod.integrated.i,
                                                      Len(IntegratedShows))]>>) :
           \E ok \in BOOLEAN : IntegratedShow(outcome, ok)
    \/ LPop("c1")
    \/ Sleep("c1")
    \/ \E now \in ClockVals : ProcessItem("c1", now)
    \/ Execute("c1")
    \/ \E k \in 0..MaxBuffered : Flush("c1", k)

SpecSnap == Init /\ [][NextSnap]_vars

(***************************************************************************)
(* The store fails under the consumer.                                     *)
(***************************************************************************)
\* execute_fails with a pipeline that is no transaction: the first buffered
\* RPUSH reaches the log before the connection breaks.
execute_fails_midway(c, done) ==
    /\ pc[c] = "execute"
    /\ data' = IF done /\ pipe[c] # <<>> THEN Append(data, pipe[c][1]) ELSE data
    /\ pc' = [pc EXCEPT ![c] = "raised"]
    /\ pipe' = [pipe EXCEPT ![c] = <<>>]
    /\ items' = [items EXCEPT ![c] = IF done THEN <<>> ELSE @]
    /\ UNCHANGED <<queue, snapshot_file, idx, snapshot_accum, total_processed,
                   next_id, dequeued, q0, lost, dash, prod>>

\* Line 98 when the store cannot be reached: pipe.execute() raises and the
\* exception leaves main_loop.  The MULTI/EXEC transaction was either not
\* executed at all, or executed with its reply lost on the way (done).
execute_fails(c, done) ==
    /\ pc[c] = "execute"
    /\ data' = IF done THEN rpush_all(data, pipe[c]) ELSE data
    /\ pc' = [pc EXCEPT ![c] = "raised"]
    /\ pipe' = [pipe EXCEPT ![c] = <<>>]
    /\ items' = [items EXCEPT ![c] = IF done THEN <<>> ELSE @]
    /\ UNCHANGED <<queue, snapshot_file, idx, snapshot_accum, total_processed,
                   next_id, dequeued, q0, lost, dash, prod>>

\* One consumer that is killed, or loses the store at line 98, and is started
\* again, while producers enqueue.  A failure of the LPOP of line 72 ends the
\* consumer as a kill at that line does.
NextStore ==
    \/ \E batch \in Batches : RPush(batch)
    \/ LPop("c1")
    \/ Sleep("c1")
    \/ \E now \in ClockVals : ProcessItem("c1", now)
    \/ Execute("c1")
    \/ Flush("c1", Len(snapshot_accum["c1"]))
    \/ \E done \in BOOLEAN : execute_fails("c1", done)
    \/ Kill("c1")
    \/ Restart("c1")

SpecStore == Init /\ [][NextStore]_vars

(***************************************************************************)
(* The consumer as a process that goes on running.                         *)
(***************************************************************************)
\* The next step of consumer c in main_loop.
ConsumerNext(c) ==
    \/ LPop(c)
    \/ Sleep(c)
    \/ \E now \in ClockVals : ProcessItem(c, now)
    \/ Execute(c)
    \/ \E k \in 0..MaxBuffered : Flush(c, k)

NextLive ==
    \/ \E batch \in Batches : RPush(batch)
    \/ ConsumerNext("c1")

\* One consumer that is never killed and always reaches the store, and
\* producers that may stop at any time.  The process of the consumer is
\* scheduled again and again: its next step is taken eventually, unless an
\* exception has ended main_loop.
SpecLive == Init /\ [][NextLive]_vars /\ WF_vars(ConsumerNext("c1"))

(***************************************************************************)
(* Properties.                                                             *)
(***************************************************************************)
Ids(seq) == [i \in DOMAIN seq |-> seq[i].id]

\* Consumer c has no batch in hand: it is between batches, or it has stopped.
Settled(c) ==
    \/ pc[c] = "pop" /\ items[c] = <<>>
    \/ pc[c] \in {"sleep", "flush", "raised"}

\* The log lines consumer c appended, oldest first.
LogOf(c) == SelectSeq(data, LAMBDA e : e.by = c)

\* C1: FIFO hand-off.  A pop_batch(n) call that nothing interleaves returns the
\* first min(n, length) entries of the queue as it stood when the call began, in
\* insertion order, and leaves exactly the rest in the queue.
C1_FifoHandOff ==
    [][\A c \in Consumers :
          (pc[c] = "pop" /\ pc'[c] # "pop") =>
              LET start == CallStart(c)
                  m == Min(POP_BATCH, Len(start))
              IN /\ items'[c] = SubSeq(start, 1, m)
                 /\ queue' = SubSeq(start, m + 1, Len(start))]_vars

\* A, B, C were enqueued; pop_batch(2) returned [A, B] and left [C].
C1_Witness ==
    \E c \in Consumers :
        /\ pc[c] = "process"
        /\ Ids(items[c]) = <<1, 2>>
        /\ Ids(queue) = <<3>>

\* C2: dequeue_batch is atomic.  The items one pop_batch call has returned are a
\* contiguous run of the queue: no entry that another consumer removed lies
\* between two of them.
C2_BatchIsContiguousRun ==
    \A c \in Consumers : \A i \in 1..(Len(items[c]) - 1) :
        items[c][i + 1].id = items[c][i].id + 1

\* C3: every enqueued entry is returned by at most one LPOP of at most one
\* consumer, and no entry is the source of two lines of the output log.
C3_AtMostOnce ==
    /\ \A c, d \in Consumers : \A i \in DOMAIN dequeued[c], j \in DOMAIN dequeued[d] :
            dequeued[c][i].id = dequeued[d][j].id => c = d /\ i = j
    /\ \A i, j \in DOMAIN data : data[i].src.id = data[j].src.id => i = j

\* Two consumers drained the same queue and both published.
C3_Witness ==
    /\ \A c \in Consumers : dequeued[c] # <<>>
    /\ \E i, j \in DOMAIN data : data[i].by # data[j].by

\* The record lines 89-93 make of an entry that yields one.
Yields(e) == \E now \in ClockVals : process_item(e.raw, now).st = "record"
LineOf(e) == Dumps(process_item(e.raw, CHOOSE now \in ClockVals : TRUE).rec)

\* C4: whenever a consumer has no batch in hand, the log holds exactly one
\* record for every entry it dequeued that yields one, in dequeue order.
C4_OneRecordPerValidEntry ==
    \A c \in Consumers :
        Settled(c) =>
            LET valid == SelectSeq(dequeued[c], Yields)
            IN LogOf(c) = [i \in DOMAIN valid |->
                              [src |-> valid[i], by |-> c, line |-> LineOf(valid[i])]]

\* Consumer c takes the step of lines 89-97 on an item that is no JSON.
ConsumesText(c) ==
    /\ pc[c] = "process"
    /\ items[c][idx[c]].raw = Text
    /\ pc'[c] # pc[c] \/ idx'[c] # idx[c]

\* The counters main_loop keeps.
ConsumerCounters(c) == <<total_processed[c]>>

NoTextRecord ==
    /\ \A i \in DOMAIN data : data[i].src.raw # Text
    /\ \A i \in DOMAIN snapshot_file : snapshot_file[i].src.raw # Text
    /\ \A c \in Consumers :
          /\ \A i \in DOMAIN pipe[c] : pipe[c][i].src.raw # Text
          /\ \A i \in DOMAIN snapshot_accum[c] : snapshot_accum[c][i].src.raw # Text

C6_NeverRaises == \A c \in Consumers : pc[c] # "raised"

\* The entry is a JSON object without a title: absent, null or empty.
LacksTitle(raw) ==
    /\ raw.t = "json"
    /\ raw.v.t = "obj"
    /\ ~Truthy(Get(raw.v.title))

\* C7 as stated: no record of the log stems from an event that lacks its title.
C7_TitlelessDropped == \A i \in DOMAIN data : ~LacksTitle(data[i].src.raw)

\* The title the record of a title-less event carries.
SubstituteTitle(ev) ==
    IF ev.metrics # Absent /\ Truthy(Get(ev.metrics.title))
    THEN ev.metrics.title ELSE Str("Unknown")

\* C7, amended: an event that is a JSON object with at least one key and lacks
\* its title is not dropped.  Once the consumer is through with it, either
\* enrich_record raised, or the log holds its one record, whose title is
\* metrics.title when that is set and "Unknown" otherwise, and it was counted
\* in total_processed.
C7_TitleSubstituted ==
    \A c \in Consumers :
        (Settled(c) /\ dequeued[c] # <<>> /\ LacksTitle(dequeued[c][1].raw)
            /\ Truthy(dequeued[c][1].raw.v)) =>
            \/ pc[c] = "raised" /\ data = <<>>
            \/ /\ Len(data) = 1
               /\ data[1].src = dequeued[c][1]
               /\ data[1].line.v.title = SubstituteTitle(dequeued[c][1].raw.v)
               /\ total_processed[c] = 1

\* A title-less event was published under the title "Unknown".
C7_Witness ==
    /\ Len(data) = 1
    /\ LacksTitle(data[1].src.raw)
    /\ data[1].src.raw.v.title = Str("")
    /\ data[1].line.v.title = Str("Unknown")

\* The record the log holds as line i.
RecordAt(i) == data[i].line.v

\* The timestamps that are whole seconds.
WholeSeconds == {ts \in TimestampVals : ts.t = "num" /\ ts.v % Unit = 0}

\* C8: default substitution.  The event {timestamp: T, title: "X", metrics: {}}
\* is published as the record with timestamp T, title "X", hype_score 0.0,
\* brand_equity 0, imdb_rating null, netflix_hours 0.0 and engagement_score
\* 0.0, for any T in whole seconds.
C8_DefaultSubstitution ==
    \A c \in Consumers : \A T \in WholeSeconds :
        (Settled(c) /\ dequeued[c] # <<>>
            /\ dequeued[c][1].raw = Dumps(Event(T, Str("X"), EmptyMetrics, FALSE))) =>
            /\ Len(data) = 1
            /\ RecordAt(1) =
                  [timestamp |-> T, title |-> Str("X"), hype_score |-> Num(0),
                   brand_equity |-> Num(0), imdb_rating |-> Null,
                   netflix_hours |-> Num(0), engagement_score |-> Num(0)]

\* The value is absent, null or not numeric.
NonNumeric(v) ==
    \/ v.t \in {"absent", "null", "list"}
    \/ v.t = "str" /\ v.s \notin DOMAIN FloatOfStr

\* The value is absent, null or a number.
PlainNumber(v) == v.t \in {"absent", "null", "num"}

\* The entry is an event whose timestamp, brand_equity and netflix_hours are
\* absent, null or numbers, and whose metrics is a mapping.
PlainEvent(raw) ==
    /\ raw.t = "json"
    /\ raw.v.t = "obj"
    /\ raw.v.metrics.t = "map"
    /\ PlainNumber(raw.v.timestamp)
    /\ PlainNumber(raw.v.metrics.brand_equity)
    /\ PlainNumber(raw.v.metrics.netflix_hours)

\* C9: coercion defaults.  An event whose hype_score is absent, null or not
\* numeric is published with hype_score 0.0; one whose imdb_rating is absent
\* or unparseable (its hype_score being numeric or missing) with imdb_rating
\* null: enrich_record returns a record and does not fail.
C9_CoercionDefaults ==
    \A c \in Consumers :
        (Settled(c) /\ dequeued[c] # <<>> /\ PlainEvent(dequeued[c][1].raw)) =>
            LET m == dequeued[c][1].raw.v.metrics
            IN /\ NonNumeric(m.hype_score) =>
                     /\ Len(data) = 1
                     /\ RecordAt(1).hype_score = Num(0)
               /\ (NonNumeric(m.imdb_rating) /\ PlainNumber(m.hype_score)) =>
                     /\ Len(data) = 1
                     /\ RecordAt(1).imdb_rating = Null

\* The metrics of the event that log line i stems from.
MetricsAt(i) ==
    LET ev == data[i].src.raw.v
    IN IF ev.metrics = Absent THEN EmptyMetrics ELSE ev.metrics

\* The event's hype_score as a number, before any rounding; 0 when it is missing.
HypeAt(i) ==
    LET v == Get(MetricsAt(i).hype_score)
    IN IF Truthy(v) THEN ToFloat(v).v ELSE 0

\* The event's imdb_rating is known: a number, or a string that reads as one.
RatingKnown(i) == ToFloat(Get(MetricsAt(i).imdb_rating)).ok
RatingAt(i) == ToFloat(Get(MetricsAt(i).imdb_rating)).v

\* C10 as stated: engagement_score is hype_score * (rating / 10) rounded to 4
\* places, rating being the event's imdb_rating when known and 5.0 otherwise.
C10_EngagementFormula ==
    \A i \in DOMAIN data :
        RecordAt(i).engagement_score =
            Num(Engagement(HypeAt(i),
                           IF RatingKnown(i) THEN RatingAt(i) ELSE NeutralRating))

\* C10, amended: engagement_score is hype * (rating / 10) rounded to 4 places,
\* hype being the event's hype_score before it is rounded to 3 places, and
\* rating the event's imdb_rating when it is known and not 0, and 5.0 when it
\* is unknown or exactly 0.
C10_EngagementFormulaZeroNeutral ==
    \A i \in DOMAIN data :
        RecordAt(i).engagement_score =
            Num(Engagement(HypeAt(i),
                           IF RatingKnown(i) /\ RatingAt(i) # 0
                           THEN RatingAt(i) ELSE NeutralRating))

\* hype_score 80 with imdb_rating 9.0 was published with engagement_score 72.0.
C10_Witness ==
    \E i \in DOMAIN data :
        /\ MetricsAt(i).hype_score = Num(80 * Unit)
        /\ MetricsAt(i).imdb_rating = Num(9 * Unit)
        /\ RecordAt(i).engagement_score = Num(72 * Unit)

\* C11: enrichment is a pure function of the event.  Two entries that hold the
\* same event are published as the same record, whatever was enriched before
\* and whenever each of the two was enriched.
C11_EnrichmentIsPure ==
    \A i, j \in DOMAIN data :
        data[i].src.raw = data[j].src.raw => data[i].line = data[j].line

\* Sequence s is sequence t with zero or more elements added at its end.
IsPrefix(s, t) == Len(s) <= Len(t) /\ SubSeq(t, 1, Len(s)) = s

\* The step is a producer's pipeline: new entries at the tail of the queue.
ProducerAppends ==
    /\ next_id' > next_id
    /\ IsPrefix(queue, queue')
    /\ Len(queue') = Len(queue) + (next_id' - next_id)
    /\ UNCHANGED <<data, snapshot_file, pc, items, idx, pipe, snapshot_accum,
                   total_processed>>

\* The step is one LPOP of consumer c's pop_batch: the head leaves the queue
\* and joins the items of c.
ConsumerPops(c) ==
    /\ pc[c] = "pop"
    /\ queue # <<>>
    /\ queue' = Tail(queue)
    /\ items'[c] = Append(items[c], Head(queue))
    /\ next_id' = next_id

\* C12: shared-store roles.  Every step leaves the output log as it was or
\* adds entries at its end, and only a consumer's pipe.execute() adds any, its
\* own records; every step that changes the queue is a producer's append at the
\* tail, which leaves the log alone, or a consumer's LPOP of the head; no
\* consumer step adds to the queue.
C12_SharedStoreRoles ==
    [][/\ IsPrefix(data, data')
       /\ data' # data =>
              \E c \in Consumers :
                  /\ pc[c] = "execute"
                  /\ data' = data \o pipe[c]
                  /\ \A i \in DOMAIN pipe[c] : pipe[c][i].by = c
                  /\ queue' = queue
       /\ queue' # queue =>
              \/ ProducerAppends
              \/ \E c \in Consumers : ConsumerPops(c) /\ data' = data]_vars

\* Consumer c1 published the records of the first two entries while a third
\* entry was waiting in the queue.
C12_Witness ==
    /\ Len(data) = 2
    /\ data[1].src.id = 1
    /\ data[2].src.id = 2
    /\ Len(queue) = 1
    /\ dequeued["c1"] # <<>>
    /\ dequeued["c2"] = <<>>

\* The two states of the consumer: asleep after an empty poll, and at work on
\* a batch it was returned (enriching, publishing, flushing the snapshot).
Idle(c) == pc[c] = "sleep"
Draining(c) == pc[c] \in {"process", "execute", "flush"}

\* C13: the consumer is a two-state machine that never ends on its own.  It is
\* polling, Idle or Draining and nothing else; it goes to sleep only from a
\* pop_batch that found the queue empty and returned nothing, and wakes into
\* the next pop_batch; it leaves a batch only for the next pop_batch, and then
\* every item of the batch has been through the loop and the pipeline has been
\* executed.
C13_TwoStateMachine ==
    /\ [](\A c \in Consumers : pc[c] = "pop" \/ Idle(c) \/ Draining(c))
    /\ [][\A c \in Consumers :
            /\ (~Idle(c) /\ Idle(c)') =>
                   pc[c] = "pop" /\ queue = <<>> /\ items[c] = <<>>
            /\ (Idle(c) /\ ~Idle(c)') => pc'[c] = "pop"
            /\ (pc[c] = "pop" /\ Draining(c)') => items'[c] # <<>>
            /\ (Draining(c) /\ ~Draining(c)') =>
                   /\ pc'[c] = "pop"
                   /\ idx[c] = Len(items[c]) + 1
                   /\ pipe'[c] = <<>>
                   /\ \A i \in DOMAIN items[c] :
                          Yields(items[c][i]) =>
                              \E j \in DOMAIN data' : data'[j].src = items[c][i]]_vars

\* The entries of the batches that consumers held unpublished when they stopped.
LostEntries ==
    UNION {Range(l.items) : l \in lost} \cup
    UNION {Range(items[c]) : c \in {d \in Consumers : pc[d] = "raised"}}

\* The entries running consumers hold unpublished.
HeldEntries ==
    UNION {Range(items[c]) :
              c \in {d \in Consumers : Unpublished(d) /\ pc[d] # "raised"}}

Published(e) == \E j \in DOMAIN data : data[j].src = e

\* Every entry enqueued so far is in the queue or was dequeued; a dequeued entry
\* is not in the queue; a lost entry has no record in the log; and an entry that
\* yields a record and has none in the log is held by a running consumer or lost.
LossIsTheStoppedBatches ==
    /\ \A n \in 1..(next_id - 1) :
           \/ \E i \in DOMAIN queue : queue[i].id = n
           \/ \E c \in Consumers : \E i \in DOMAIN dequeued[c] : dequeued[c][i].id = n
    /\ \A c \in Consumers : \A i \in DOMAIN dequeued[c] :
           LET e == dequeued[c][i]
           IN /\ e \notin Range(queue)
              /\ e \in LostEntries => ~Published(e)
              /\ (Yields(e) /\ ~Published(e)) => e \in LostEntries \cup HeldEntries

\* C14: crash window.  When a consumer stops after pop_batch returned a batch
\* and before pipe.execute() has appended it, all items of that batch are lost
\* and nothing else is: the stop leaves the queue and the log as they were; the
\* lost items are not in the queue and no later run of the consumer appends a
\* record of them; every other entry is in the queue, held by a running
\* consumer, or has its record in the log when it yields one.
C14_CrashWindow ==
    /\ []LossIsTheStoppedBatches
    /\ [][\A c \in Consumers :
            (pc[c] \in {"process", "execute"} /\ pc'[c] \in {"dead", "raised"}) =>
                /\ LostEntries' = LostEntries \cup Range(items[c])
                /\ queue' = queue
                /\ data' = data]_vars

\* The consumer was killed while it was enriching the batch of entries 1 and 2;
\* started again, it published the record of entry 3 and drained the queue.
C14_Witness ==
    /\ \E l \in lost : l.at = "process" /\ Ids(l.items) = <<1, 2>>
    /\ Len(data) = 1
    /\ data[1].src.id = 3
    /\ queue = <<>>
    /\ pc["c1"] = "sleep"

\* Consumer c takes the step of lines 102-110, and the write of the snapshot
\* file fails before the last buffered record is in the file.
FlushFails(c) ==
    /\ pc[c] = "flush"
    /\ pc'[c] # "flush"
    /\ Len(snapshot_file') < Len(snapshot_file) + Len(snapshot_accum[c])

\* C15: a snapshot write that fails does not touch the output log.  When a
\* flush is attempted every buffered record is in the log already; a failing
\* write leaves the log and the queue as they were, empties the buffer, and the
\* consumer is back at pop_batch with no batch in hand and nothing pending.
C15_FlushFailureIsHarmless ==
    /\ [](\A c \in Consumers :
            pc[c] = "flush" =>
                /\ pipe[c] = <<>>
                /\ \A i \in DOMAIN snapshot_accum[c] :
                       \E j \in DOMAIN data :
                           /\ data[j].src = snapshot_accum[c][i].src
                           /\ data[j].line = Dumps(snapshot_accum[c][i].rec))
    /\ [][\A c \in Consumers :
            FlushFails(c) =>
                /\ data' = data
                /\ queue' = queue
                /\ pc'[c] = "pop"
                /\ items'[c] = <<>>
                /\ snapshot_accum'[c] = <<>>]_vars

\* The snapshot write after the first batch failed with nothing written, and
\* the consumer went on to publish the record of a later batch.
C15_Witness ==
    /\ Len(data) = 3
    /\ \A j \in DOMAIN data : data[j].by = "c1"
    /\ snapshot_file = <<>>
    /\ total_processed["c1"] = 3
    /\ Len(snapshot_accum["c1"]) = 1

\* The record that line j of the log holds.
Parsed(j) == loads(data[j].line).v

\* The rows are the newest n lines of the log as it is now.
NewestRows(rows, n) ==
    /\ Len(rows) = n
    /\ n <= Len(data)
    /\ \A i \in 1..n : rows[i] = Parsed(Len(data) - n + i)

\* The step ends a run of dashboard a's script: the page is new.
Refreshed(a) == dash'[a] # dash[a] /\ dash'[a].pc = "idle"

\* C16: a dashboard never shows more than MAX_READ records, and a dashboard that
\* has just read a log longer than MAX_READ shows exactly its newest MAX_READ
\* records, whatever the consumer appended while the script ran.
C16_ReadIsCapped ==
    /\ [](\A a \in Apps : Len(dash[a].rows) <= MAX_READ)
    /\ [][\A a \in Apps :
            (Refreshed(a) /\ dash'[a].page = "charts" /\ Len(data) > MAX_READ) =>
                NewestRows(dash'[a].rows, MAX_READ)]_vars

\* C17: the dashboards write nothing.  Every step of a dashboard script, whether
\* its read succeeds or fails, leaves the queue, the output log and the snapshot
\* file as they were.
C17_DashboardWritesNothing ==
    [][(\E a \in Apps : dash'[a] # dash[a]) =>
           /\ queue' = queue
           /\ data' = data
           /\ snapshot_file' = snapshot_file]_vars

\* Both dashboards show charts of a log that the running consumer has extended,
\* while an entry waits in the queue and the snapshot file holds two records.
C17_Witness ==
    /\ \A a \in Apps : dash[a].page = "charts" /\ Len(dash[a].rows) = MAX_READ
    /\ Len(data) = MAX_READ + 1
    /\ Len(queue) = 1
    /\ Len(snapshot_file) = 2

\* The rows are the records of a run of consecutive lines of the log.
RunOfLog(rows) ==
    \E first \in 1..Len(data) :
        /\ first + Len(rows) - 1 <= Len(data)
        /\ \A i \in DOMAIN rows :
               loads(data[first + i - 1].line) = Ok(rows[i])

\* C18: the read path of a dashboard never fails.  A run of the script ends in
\* a page and nowhere else; a dashboard that reported a read error shows the
\* no-data page with an empty table; a table that is not empty holds the
\* records of consecutive lines of the log, none left out, and came without an
\* error; a run on an empty log ends in the no-data page; a run on a log with a
\* line that is no JSON ends in the error and the empty table.
C18_ReadPathNeverFails ==
    /\ [](\A a \in Apps :
            /\ dash[a].pc \in {"idle", "lrange"}
            /\ dash[a].page \in {"none", "nodata", "charts"}
            /\ dash[a].error => dash[a].rows = <<>> /\ dash[a].page = "nodata"
            /\ dash[a].rows = <<>> => dash[a].page # "charts"
            /\ dash[a].rows # <<>> =>
                   dash[a].page = "charts" /\ ~dash[a].error /\ RunOfLog(dash[a].rows))
    /\ [][\A a \in Apps :
            /\ (Refreshed(a) /\ data = <<>>) =>
                   dash'[a].page = "nodata" /\ dash'[a].rows = <<>>
            /\ (Refreshed(a) /\ \E j \in DOMAIN data : ~loads(data[j].line).ok
                    /\ Len(data) <= MAX_READ) =>
                   dash'[a].error /\ dash'[a].rows = <<>>]_vars

\* app.py could not reach the store and shows its error with an empty table,
\* while app_enhanced.py shows the records of the same log.
C18_Witness ==
    /\ dash["app"].error
    /\ dash["app"].rows = <<>>
    /\ dash["app_enhanced"].page = "charts"
    /\ Len(dash["app_enhanced"].rows) = Len(data)
    /\ \A j \in DOMAIN data : loads(data[j].line).ok

\* The usable sample rows of dashboard a's regression block on the table it shows.
SampleRows(a) ==
    IF a = "app" THEN Cardinality(ml_rows_app(dash[a].rows))
    ELSE Cardinality(ml_rows_enhanced(dash[a].rows))

HigherMean(rows, a, b) ==
    HypeSum(rows, a, Len(rows)) * Cardinality(RowsOf(rows, b)) >
        HypeSum(rows, b, Len(rows)) * Cardinality(RowsOf(rows, a))

\* No two titles of the table have the same mean.
DistinctMeans(rows) ==
    \A a, b \in TitlesOf(rows) : a # b => HigherMean(rows, a, b) \/ HigherMean(rows, b, a)

\* The sequence lists the n titles of highest mean, or all titles when there are
\* fewer, highest first.
IsTopN(top, rows, n) ==
    /\ Len(top) = Min(n, Cardinality(TitlesOf(rows)))
    /\ \A i \in DOMAIN top : top[i] \in TitlesOf(rows)
    /\ \A i, j \in DOMAIN top :
           i < j => top[i] # top[j] /\ ~HigherMean(rows, top[j], top[i])
    /\ \A t \in TitlesOf(rows) :
           (\A i \in DOMAIN top : top[i] # t) =>
               \A i \in DOMAIN top : ~HigherMean(rows, t, top[i])

\* Rows of titles A (hype 5 and 15, mean 10), B (30) and C (10 and 30, mean 20).
ExampleRows ==
    [i \in 1..5 |->
        [title |-> Str(<<"A", "C", "B", "A", "C">>[i]),
         hype_score |-> Num(<<5, 10, 30, 15, 30>>[i] * Unit)]]

Reversed(seq) == [i \in DOMAIN seq |-> seq[Len(seq) + 1 - i]]

\* C20: leaderboard ranking.  The leaderboard app.py shows lists the top_n
\* titles of its table by mean hype_score, highest first; when no two means
\* are equal the same list comes out of the rows in reverse order; and for
\* titles A (mean 10), B (mean 30), C (mean 20) the top 2 are B, C.
C20_LeaderboardRanking ==
    /\ dash["app"].page = "charts" =>
           /\ IsTopN(dash["app"].top, dash["app"].rows, dash["app"].top_n)
           /\ DistinctMeans(dash["app"].rows) =>
                  \A asc \in BOOLEAN :
                      leaderboard(Reversed(dash["app"].rows), dash["app"].top_n, asc)
                          = dash["app"].top
    /\ \A asc \in BOOLEAN :
           /\ leaderboard(ExampleRows, 2, asc) = <<Str("B"), Str("C")>>
           /\ leaderboard(Reversed(ExampleRows), 2, asc) = <<Str("B"), Str("C")>>

\* Of seven titles the leaderboard shows the five of highest mean, G first.
C20_Witness ==
    /\ dash["app"].page = "charts"
    /\ Cardinality(TitlesOf(dash["app"].rows)) = 7
    /\ dash["app"].top_n = 5
    /\ dash["app"].top = <<Str("G"), Str("F"), Str("E"), Str("D"), Str("C")>>
    /\ \E i \in DOMAIN dash["app"].rows : \E j \in DOMAIN dash["app"].rows :
           /\ i # j
           /\ dash["app"].rows[i].title = dash["app"].rows[j].title
           /\ dash["app"].rows[i].hype_score # dash["app"].rows[j].hype_score

\* The place of the first row of title t in the table.
FirstSeen(rows, t) == CHOOSE i \in RowsOf(rows, t) : \A j \in RowsOf(rows, t) : i <= j

\* C21: leaderboard tie-breaking.  Of two titles of equal mean hype_score the
\* leaderboard of app.py lists first the one whose first record comes earlier
\* in the output log.
C21_TiesInFirstSeenOrder ==
    dash["app"].page = "charts" =>
        \A i, j \in DOMAIN dash["app"].top :
            (/\ i < j
             /\ ~HigherMean(dash["app"].rows, dash["app"].top[i], dash["app"].top[j]))
                => FirstSeen(dash["app"].rows, dash["app"].top[i])
                       < FirstSeen(dash["app"].rows, dash["app"].top[j])

\* The event a queue entry holds.
EventOf(e) == e.raw.v

\* The frame of the request has no data for the show.
NoData(outcome, show) == outcome.kind # "data" \/ show \notin outcome.cols

\* C22: in producer.py a trends failure is never fatal and never suppresses
\* events.  Whether the request of a batch yields data, an empty frame or an
\* exception, handling the batch appends one event for each of its shows, in
\* the order of the batch, with hype_score 0 for a show the frame has no data
\* for; after the last batch the producer sleeps, and from the sleep it begins
\* the next cycle with every batch.
C22_TrendsFailureNeverSuppresses ==
    [][/\ (/\ prod.producer.pc = "collect"
           /\ prod'.producer # prod.producer
           /\ prod'.producer.pc # "raised") =>
              \E b \in prod.producer.pending :
                  LET batch == show_batches[b]
                      left == prod.producer.pending \ {b}
                  IN /\ prod'.producer.pending = left
                     /\ prod'.producer.pc = IF left = {} THEN "sleep" ELSE "collect"
                     /\ IsPrefix(queue, queue')
                     /\ Len(queue') = Len(queue) + Len(batch)
                     /\ \A i \in DOMAIN batch :
                            LET ev == EventOf(queue'[Len(queue) + i])
                            IN /\ ev.title = Str(batch[i])
                               /\ NoData(prod.producer.outcomes[b], batch[i]) =>
                                      ev.metrics.hype_score = Num(0)
       /\ (prod.producer.pc = "sleep" /\ prod'.producer # prod.producer) =>
              prod'.producer.pc = "cycle" /\ queue' = queue
       /\ (prod.producer.pc = "cycle" /\ prod'.producer # prod.producer) =>
              /\ prod'.producer.pc = "collect"
              /\ prod'.producer.pending = DOMAIN show_batches
      ]_vars

\* The second cycle is complete; the request of its first batch raised and that
\* of its second came back empty, and each cycle enqueued an event for every show.
C22_Witness ==
    /\ prod.producer.pc = "sleep"
    /\ prod.producer.cycles = 1
    /\ prod.producer.outcomes = <<FetchRaises, FetchEmpty>>
    /\ Len(queue) = 2 * Len(ProducerShows)
    /\ \A i \in 4..6 : EventOf(queue[i]).metrics.hype_score = Num(0)
    /\ \E i \in 1..3 : EventOf(queue[i]).metrics.hype_score # Num(0)

\* The entries whose ids are listed in sent stand in the sequence in the order
\* of sent.
InOrderOf(seq, sent) ==
    \A i, j \in DOMAIN sent :
        i < j => \A a, b \in DOMAIN seq :
                     (seq[a].id = sent[i] /\ seq[b].id = sent[j]) => a < b

\* The ids of the entries a producer has enqueued.
SentIds(p) == {prod[p].sent[i] : i \in DOMAIN prod[p].sent}

\* The ids of the entries of a sequence.
IdSet(seq) == {seq[i].id : i \in DOMAIN seq}

\* C23: FIFO per producer.  With both producers enqueueing and a consumer
\* dequeueing in any interleaving, the events of each producer stand in the
\* queue in the order in which that producer emitted them, they were dequeued
\* in that order, and none was dequeued while an earlier one of the same
\* producer was still waiting.
C23_FifoPerProducer ==
    \A p \in Producers :
        /\ InOrderOf(queue, prod[p].sent)
        /\ \A c \in Consumers : InOrderOf(dequeued[c], prod[p].sent)
        /\ \A i, j \in DOMAIN prod[p].sent :
               (i < j /\ \E c \in Consumers : prod[p].sent[j] \in IdSet(dequeued[c]))
                   => prod[p].sent[i] \notin IdSet(queue)

\* The stream's pipeline went in between two pipelines of the backfill, and the
\* consumer has dequeued events of both producers while others still wait.
C23_Witness ==
    /\ \E a, c \in SentIds("integrated") :
           \E b \in SentIds("streaming") :
               /\ a < b
               /\ b < c
               /\ a \in IdSet(dequeued["c1"])
               /\ b \in IdSet(dequeued["c1"])
               /\ c \in IdSet(queue)
    /\ Len(prod.streaming.sent) >= 2

\* The entries of a batch that yield a record, in the order of the batch.
YieldingItems(batch) == SelectSeq(batch, Yields)

\* No record of the batches that consumers hold unpublished, or that were lost
\* with a consumer, is in the log.
NoPartOfAHeldBatch ==
    /\ \A c \in Consumers :
           Unpublished(c) => \A e \in Range(items[c]) : ~Published(e)
    /\ \A l \in lost : \A e \in Range(l.items) : ~Published(e)

\* C24: batch publication is atomic.  The log changes only by one pipeline
\* execution that appends the records of every record-yielding item of one
\* consumer's batch together, in the order of the batch; and in every state,
\* among them the states a dashboard reads and the states a kill of the
\* consumer or a failure of the store leaves behind, the log holds no record
\* of a batch that is still held or was lost.
C24_BatchPublicationAtomic ==
    /\ []NoPartOfAHeldBatch
    /\ [][data' # data =>
            \E c \in Consumers :
                /\ pc[c] = "execute"
                /\ Len(data') = Len(data) + Len(YieldingItems(items[c]))
                /\ IsPrefix(data, data')
                /\ \A i \in DOMAIN YieldingItems(items[c]) :
                       data'[Len(data) + i].src = YieldingItems(items[c])[i]]_vars

\* The store failed at pipe.execute() after the transaction of a batch of two
\* records had run: both records are in the log and the consumer has ended;
\* before that a batch was lost whole with a stop of the consumer.
C24_Witness ==
    /\ pc["c1"] = "raised"
    /\ items["c1"] = <<>>
    /\ Len(data) = 2
    /\ dequeued["c1"][Len(dequeued["c1"])] = data[2].src
    /\ dequeued["c1"][Len(dequeued["c1"]) - 1] = data[1].src
    /\ lost # {}

\* d[k] of a dict that has the key.
dict_get(d, k) == d[CHOOSE i \in DOMAIN d : d[i].k = k].v

\* The request brought a value for the show.
Fetched(outcome, show) == outcome.kind = "data" /\ show \in outcome.cols

\* The request raised, or brought a frame without the show's column.
FetchFailed(outcome, show) ==
    outcome.kind = "raises" \/ (outcome.kind = "data" /\ show \notin outcome.cols)

\* The value of the latest successful fetch of the show, 0.0 when there is none.
LastKnown(last_ok, show) == IF show \in DOMAIN last_ok THEN last_ok[show] ELSE 0

\* C25: last-known-value substitution in the streaming producer.  When the
\* request of a batch raises, or its frame lacks the column of a show, the
\* value entered for the show is that of its latest successful fetch, 0.0 when
\* it has none; a successful fetch enters the fetched value; and the cached
\* value of a show changes only on a successful fetch of that show, to the
\* value fetched.  get_current_interest does the same for its one show, for
\* an empty frame too.
C25_LastKnownValue ==
    [][(prod.streaming.pc = "fetch" /\ prod'.streaming # prod.streaming) =>
          LET batch == stream_batches[prod.streaming.i]
              outcome == prod'.streaming.outcomes[Len(prod'.streaming.outcomes)]
              last_ok == prod.streaming.last_ok
              shows == {StreamShows[i] : i \in DOMAIN StreamShows}
          IN /\ prod.streaming.last_values = last_ok
             /\ \A i \in DOMAIN batch :
                    /\ FetchFailed(outcome, batch[i]) =>
                           /\ batch[i] \in dict_keys(prod'.streaming.results)
                           /\ dict_get(prod'.streaming.results, batch[i])
                                  = LastKnown(last_ok, batch[i])
                    /\ Fetched(outcome, batch[i]) =>
                           /\ batch[i] \in dict_keys(prod'.streaming.results)
                           /\ dict_get(prod'.streaming.results, batch[i])
                                  = Latest(outcome.vals)
             /\ \A show \in shows :
                    IF Fetched(outcome, show) /\ \E i \in DOMAIN batch : batch[i] = show
                    THEN /\ show \in DOMAIN prod'.streaming.last_values
                         /\ prod'.streaming.last_values[show] = Latest(outcome.vals)
                    ELSE /\ show \in DOMAIN prod'.streaming.last_values
                             <=> show \in DOMAIN prod.streaming.last_values
                         /\ cached(prod'.streaming.last_values, show)
                                = cached(prod.streaming.last_values, show)
             /\ \A show \in shows : \A o \in Outcomes(<<show>>) :
                    LET r == get_current_interest(show, o, prod.streaming.last_values)
                    IN IF Fetched(o, show)
                       THEN /\ r.value = Latest(o.vals)
                            /\ r.last_values[show] = Latest(o.vals)
                            /\ \A other \in shows \ {show} :
                                   cached(r.last_values, other)
                                       = cached(prod.streaming.last_values, other)
                       ELSE /\ r.value = LastKnown(last_ok, show)
                            /\ r.last_values = prod.streaming.last_values
      ]_vars

\* In its second iteration the stream's first request raised: show A was given
\* the value fetched for it in the first iteration, and show B, never fetched
\* with success, the value 0.0.
C25_Witness ==
    /\ prod.streaming.iteration = 2
    /\ prod.streaming.outcomes = <<FetchRaises>>
    /\ prod.streaming.results = <<[k |-> "A", v |-> 123462], [k |-> "B", v |-> 0]>>
    /\ DOMAIN prod.streaming.last_values = {"A"}

\* C26: fetch_batch_interests returns a mapping with an entry for every show it
\* was given, whatever the outcome of each batch's request, so that a stream
\* iteration whose pipeline is executed enqueues one event for each distinct
\* tracked show.
C26_EntryForEveryShow ==
    [][/\ prod'.streaming.pc = "push" =>
              dict_keys(prod'.streaming.results)
                  = {StreamShows[i] : i \in DOMAIN StreamShows}
       /\ (prod.streaming.pc = "push" /\ queue' # queue) =>
              /\ Len(queue') = Len(queue)
                     + Cardinality({StreamShows[i] : i \in DOMAIN StreamShows})
              /\ \A i \in DOMAIN StreamShows :
                     \E j \in (Len(queue) + 1)..Len(queue') :
                         EventOf(queue'[j]).title = Str(StreamShows[i])
      ]_vars

\* C27: snapshot consistency.  With a single consumer, every line of the
\* snapshot file is a record that is in the output log, and the lines stand in
\* the file in the order of those records in the log; a record that waits in
\* the buffer for a flush that has begun is in the log as well.
C27_SnapshotIsSubsequenceOfLog ==
    /\ \A i \in DOMAIN snapshot_file : \E j \in DOMAIN data : data[j] = snapshot_file[i]
    /\ \A i, k \in DOMAIN snapshot_file :
           i < k => \E j, l \in DOMAIN data :
                        /\ j < l
                        /\ data[j] = snapshot_file[i]
                        /\ data[l] = snapshot_file[k]
    /\ \A c \in Consumers : \A i \in DOMAIN snapshot_accum[c] :
           pc[c] = "flush" => \E j \in DOMAIN data : data[j].src = snapshot_accum[c][i].src

\* The consumer was stopped with the first record published and not yet
\* flushed; started again, it published and flushed the second and third.
C27_Witness ==
    /\ Len(data) = 3
    /\ snapshot_file = <<data[2], data[3]>>
    /\ data[2] # data[3]

\* The record is neither in the snapshot file nor in a consumer's buffer.
Missed(r, file, accum) ==
    /\ \A i \in DOMAIN file : file[i].src # r.src
    /\ \A c \in Consumers : \A i \in DOMAIN accum[c] : accum[c][i].src # r.src

\* C28: after every flush attempt, successful or failed, the snapshot buffer is
\* empty.  The attempt writes a leading part of the buffer to the file, all of
\* it when it succeeds, and leaves the log alone, where every buffered record
\* stays; and a record of the log that is neither in the file nor in the
\* buffer, as the records are that a failed flush could not write, is never
\* buffered or written to the file again.
C28_BufferEmptyAfterFlush ==
    [][/\ \A c \in Consumers :
              (pc[c] = "flush" /\ pc'[c] = "pop") =>
                  /\ snapshot_accum'[c] = <<>>
                  /\ data' = data
                  /\ \A i \in DOMAIN snapshot_accum[c] :
                         \E j \in DOMAIN data' : data'[j].src = snapshot_accum[c][i].src
                  /\ \E k \in 0..Len(snapshot_accum[c]) :
                         /\ Len(snapshot_file') = Len(snapshot_file) + k
                         /\ IsPrefix(snapshot_file, snapshot_file')
                         /\ \A i \in 1..k :
                                snapshot_file'[Len(snapshot_file) + i].src
                                    = snapshot_accum[c][i].src
       /\ \A j \in DOMAIN data :
              Missed(data[j], snapshot_file, snapshot_accum) =>
                  /\ j \in DOMAIN data'
                  /\ data'[j] = data[j]
                  /\ Missed(data[j], snapshot_file', snapshot_accum')
      ]_vars

\* The flush of the first two records failed before it wrote any; the flush of
\* the next two succeeded: the file holds the third and fourth record only, the
\* log all four.
C28_Witness ==
    /\ Len(data) = 4
    /\ snapshot_file = <<data[3], data[4]>>
    /\ snapshot_accum["c1"] = <<>>
    /\ pc["c1"] = "pop"
    /\ Missed(data[1], snapshot_file, snapshot_accum)
    /\ Missed(data[2], snapshot_file, snapshot_accum)

\* Consumer c polls an empty queue: pop_batch returns nothing, the consumer
\* sleeps and polls again.
Polling(c) == pc[c] \in {"pop", "sleep"} /\ items[c] = <<>>

\* Nothing waits in the queue, and every entry that was dequeued and yields a
\* record has its record in the log.
Drained ==
    /\ queue = <<>>
    /\ \A i \in DOMAIN dequeued["c1"] :
           Yields(dequeued["c1"][i]) => Published(dequeued["c1"][i])

\* C29: drain liveness.  In a run in which the consumer goes on running (no
\* exception ends main_loop, the process is not killed, the store answers),
\* every well-formed event that is enqueued is eventually dequeued and its
\* record eventually is in the output log; and once the producers have stopped
\* the queue becomes empty and the consumer idles, polling it, for ever.
C29_DrainLiveness ==
    [](pc["c1"] # "raised") => <>[](Drained /\ Polling("c1"))

\* The producers have enqueued all they will, every entry yielded a record, the
\* records are in the log and the consumer sleeps on an empty queue.
C29_Witness ==
    /\ next_id = MaxEvents + 1
    /\ queue = <<>>
    /\ pc["c1"] = "sleep"
    /\ Len(data) = MaxEvents
    /\ \A j \in DOMAIN data : data[j].src.id = j

\* The event a record of the log was made from, and the record.
SourceEvent(j) == data[j].src.raw.v
LogRecord(j) == data[j].line.v

\* C30: a rating of exactly 0 is treated as an unknown rating.  The backfill
\* and the streaming producer emit the rating 0 for a title without rating
\* metadata; for an event whose rating is 0 the consumer computes
\* engagement_score with the neutral rating 5.0, as the event's hype_score * 0.5
\* rounded to four decimals, while the record's imdb_rating is 0.0 and not null.
C30_ZeroRatingIsUnknown ==
    /\ \A i \in DOMAIN queue :
           (/\ queue[i].id \in SentIds("integrated") \cup SentIds("streaming")
            /\ ~meta_of(EventOf(queue[i]).title.s).found) =>
               EventOf(queue[i]).metrics.imdb_rating = Num(0)
    /\ \A j \in DOMAIN data :
           SourceEvent(j).metrics.imdb_rating = Num(0) =>
               /\ LogRecord(j).imdb_rating = Num(0)
               /\ LogRecord(j).engagement_score
                      = Num(RoundDiv(SourceEvent(j).metrics.hype_score.v, 2))
               /\ LogRecord(j).engagement_score
                      = Num(Engagement(SourceEvent(j).metrics.hype_score.v,
                                       NeutralRating))

\* The consumer has published the record of an event of the backfill for show
\* D, which has no metadata: rating 0.0, hype_score 12, engagement_score 6.
C30_Witness ==
    \E j \in DOMAIN data :
        /\ data[j].src.id \in SentIds("integrated")
        /\ LogRecord(j).title = Str("D")
        /\ SourceEvent(j).metrics.imdb_rating = Num(0)
        /\ LogRecord(j).imdb_rating = Num(0)
        /\ LogRecord(j).hype_score = Num(12 * Unit)
        /\ LogRecord(j).engagement_score = Num(6 * Unit)
====
